---- MODULE Spec2Model ----
(***************************************************************************)
(* Authentication and account lifecycle of the trading API:                *)
(* cruds/security_crud.py, cruds/user_crud.py and routes/user_router.py.   *)
(*                                                                         *)
(* Time is the instant of the wall clock in hours.  Every datetime of the  *)
(* code (datetime.now(brasilia_tz), datetime.utcnow(), the timestamptz     *)
(* columns) denotes an instant; attaching or converting a timezone         *)
(* (localize / astimezone) keeps the instant, and aware datetimes compare  *)
(* by instant, so a datetime is modelled by its instant.                   *)
(* A nullable column is None (the empty tuple) or Some(v) (a 1-tuple).     *)
(***************************************************************************)
EXTENDS Integers, Sequences, FiniteSets, TLC

VARIABLES
    users,    \* table "users": id -> row
    nextId,   \* the serial primary key of the next inserted row
    now,      \* the wall clock, in hours
    resp,     \* the response of the last request
    held,     \* the token pair a client kept from its last token response
    pending,  \* create_user calls between their lookup and their commit
    environ   \* the environment variables API_USER and API_PASS

vars == <<users, nextId, now, resp, held, pending, environ>>

----------------------------------------------------------------------------
(* Bounds of the model *)

\* Accounts of the population specification (SpecWide).
MaxUsers == 2
\* Accounts followed through time (Spec, SpecFault).
MaxTimelineUsers == 1

\* The instants at which requests are observed (hours): a plan of one day
\* granted at 0 is at its last valid instant at 24, and every plan granted
\* at 0 or 24 is past its expiry at 721.
Instants == {0, 24, 721}

\* The instants of the token specification: a token of 6 or 12 hours issued
\* at 0 or 6 reaches its expiry at 6 or 12, a token of 30 days issued at 0
\* reaches it at 720 and is past it at 721.
TokenInstants == {0, 6, 12, 720, 721}

Emails == {"ana@x.io", "bob@x.io"}
Passwords == {"pw1"}
WrongPassword == "nope"

\* Identifiers a login form may carry.
Identifiers ==
    Emails \cup {"Ana@X.io", "ana", "ana_2", "not an email", "ana@x", "an.a",
                 "ana@@x.io", "ana@x.io<LF>", ""}

----------------------------------------------------------------------------
(* Values *)

None == <<>>
Some(v) == <<v>>
Val(o) == o[1]

\* str.lower() on the strings of the model
Lower(s) ==
    CASE s = "Ana@X.io" -> "ana@x.io"
      [] s = "Carl@X.io" -> "carl@x.io"
      [] s = "ANNUALLY" -> "annually"
      [] OTHER -> s

\* timedelta(days=d), timedelta(hours=h) in hours
Days(d) == d * 24
Hours(h) == h

ACCESS_TOKEN_EXPIRE_HOURS == 6
REFRESH_TOKEN_EXPIRE_DAYS == 30

SECRET_KEY == "server-key"

\* PLAN_DURATIONS with a month of 31 days
PLAN_DURATIONS_long == [p \in {"diario", "semanal", "mensal"} |->
                          CASE p = "diario" -> 1
                            [] p = "semanal" -> 7
                            [] p = "mensal" -> 31]

\* PLAN_DURATIONS with an entry for the annual plan
PLAN_DURATIONS_with_anual == [p \in {"diario", "semanal", "mensal", "anual"} |->
                                CASE p = "diario" -> 1
                                  [] p = "semanal" -> 7
                                  [] p = "mensal" -> 30
                                  [] p = "anual" -> 365]

PLAN_DURATIONS == [p \in {"diario", "semanal", "mensal"} |->
                     CASE p = "diario" -> 1
                       [] p = "semanal" -> 7
                       [] p = "mensal" -> 30]

\* pwd_context.hash / pwd_context.verify: a one-way, self-describing hash
get_password_hash(password) == [scheme |-> "bcrypt", digest |-> password]
verify_password(plain, hashed) ==
    /\ hashed.scheme = "bcrypt"
    /\ hashed.digest = plain

\* A row of table users
User(id, email, password, is_superuser) ==
    [id |-> id, email |-> email, password |-> password,
     is_superuser |-> is_superuser, is_active |-> FALSE,
     last_login |-> None, activated_at |-> None, current_plan |-> None]

\* db.query(User).filter(User.id == user_id).first()
get_user_by_id(us, user_id) ==
    IF user_id \in DOMAIN us THEN Some(us[user_id]) ELSE None

\* db.query(User).filter(User.email == email.lower()).first()
get_user_by_email(us, email) ==
    LET hit == {i \in DOMAIN us : us[i].email = Lower(email)}
    IN IF hit = {} THEN None
       ELSE Some(us[CHOOSE i \in hit : \A j \in hit : i <= j])

\* An HTTP response: status, detail, the id of the account in the body,
\* the tokens of the body, and the calls the handler made in order.
Resp(op, status, detail, user, tokens, trace) ==
    [op |-> op, status |-> status, detail |-> detail,
     user |-> user, tokens |-> tokens, trace |-> trace]

\* The outcome of a crud function: the table after it, and what it returned
\* (status 200 and the row's id) or raised (status and detail).
Out(us, status, detail, user) ==
    [users |-> us, status |-> status, detail |-> detail, user |-> user]

----------------------------------------------------------------------------
(* cruds/user_crud.py *)

create_user(us, id, email, password, is_superuser, ok) ==
    IF get_user_by_email(us, email) # None
    THEN Out(us, 400, "Email ja esta em uso", None)
    ELSE IF ~ok
    THEN Out(us, 500, "Erro ao criar usuario", None)
    ELSE Out((id :> User(id, Lower(email), get_password_hash(password),
                         is_superuser)) @@ us,
             200, "", Some(id))

user_last_login(us, user_id, t, ok) ==
    LET u == get_user_by_id(us, user_id)
    IN IF u = None
       THEN Out(us, 404, "Usuario nao encontrado", None)
       ELSE IF ~ok
       THEN Out(us, 500, "Erro ao atualizar ultimo login", None)
       ELSE Out([us EXCEPT ![user_id].last_login = Some(t)],
                200, "", Some(user_id))

\* Column email is unique: a commit that would store a second row with the
\* email fails with IntegrityError, a SQLAlchemyError.  skip: the row that is
\* being updated, 0 for an insert.
\* The table without the unique index on email
EmailUniqueViolation_unindexed(us, email, skip) == FALSE

EmailUniqueViolation(us, email, skip) ==
    \E i \in DOMAIN us : i # skip /\ us[i].email = email

\* create_user from db.add on, the lookup of the email having found nothing
create_user_commit(us, id, email, password, is_superuser, ok) ==
    IF ~ok \/ EmailUniqueViolation(us, Lower(email), 0)
    THEN Out(us, 500, "Erro ao criar usuario", None)
    ELSE Out((id :> User(id, Lower(email), get_password_hash(password),
                         is_superuser)) @@ us,
             200, "", Some(id))

\* schemas.UserUpdate: its four fields, None when unset
UserUpdate(email, password) ==
    [complete_name |-> None, email |-> email,
     phone_number |-> None, password |-> password]

\* user.<name> on a schema object: the attribute exists when it is a field
HasAttr(user, name) == name \in DOMAIN user

\* user.dict(exclude_unset=True), for the columns of the model
UpdateData(user) ==
    [f \in {g \in DOMAIN user : user[g] # None} |-> Val(user[f])]

\* The row after the setattr loop over update_data
SetAttrs(row, update_data) ==
    [c \in DOMAIN row |->
        IF c \in DOMAIN update_data THEN update_data[c] ELSE row[c]]

\* update_user reading no attribute old_password
update_user_no_old_password(us, user_id, user, ok) ==
    LET u == get_user_by_id(us, user_id)
        update_data == UpdateData(user)
    IN IF u = None
       THEN Out(us, 404, "Usuario nao encontrado", None)
       ELSE IF /\ "email" \in DOMAIN update_data
               /\ update_data["email"] # Val(u).email
               /\ get_user_by_email(us, update_data["email"]) # None
       THEN Out(us, 400, "Email ja esta em uso", None)
       ELSE IF \/ ~ok
               \/ /\ "email" \in DOMAIN update_data
                  /\ EmailUniqueViolation(us, update_data["email"], user_id)
       THEN Out(us, 500, "Erro ao atualizar usuario", None)
       ELSE Out([us EXCEPT ![user_id] = SetAttrs(@, update_data)],
                200, "", Some(user_id))

\* Reading user.old_password raises AttributeError when the schema object
\* has no such attribute: the function is left before any assignment and the
\* route answers 500.
update_user(us, user_id, user, ok) ==
    LET u == get_user_by_id(us, user_id)
        raw == UpdateData(user)
    IN IF u = None
       THEN Out(us, 404, "Usuario nao encontrado", None)
       ELSE IF ~HasAttr(user, "old_password")
       THEN Out(us, 500, "Erro ao atualizar usuario", None)
       ELSE IF user.old_password = None /\ user.password # None
       THEN Out(us, 400, "Para alterar a senha, forneca a senha atual no campo old_password", None)
       ELSE IF user.old_password # None /\ user.password = None
       THEN Out(us, 400, "Para alterar a senha, forneca a nova senha no campo password", None)
       ELSE IF /\ user.old_password # None
               /\ ~verify_password(Val(user.old_password), Val(u).password)
       THEN Out(us, 400, "Senha atual incorreta", None)
       ELSE
       LET hashed == IF user.password # None
                     THEN ("password" :> get_password_hash(Val(user.password)))
                     ELSE <<>>
           kept == [f \in DOMAIN raw \ {"old_password", "password"} |-> raw[f]]
           update_data == hashed @@ kept
       IN IF /\ "email" \in DOMAIN update_data
             /\ update_data["email"] # Val(u).email
             /\ get_user_by_email(us, update_data["email"]) # None
          THEN Out(us, 400, "Email ja esta em uso", None)
          ELSE IF \/ ~ok
                  \/ /\ "email" \in DOMAIN update_data
                     /\ EmailUniqueViolation(us, update_data["email"], user_id)
          THEN Out(us, 500, "Erro ao atualizar usuario", None)
          ELSE Out([us EXCEPT ![user_id] = SetAttrs(@, update_data)],
                   200, "", Some(user_id))

----------------------------------------------------------------------------
(* cruds/security_crud.py: credentials and tokens *)

\* The email_regex of authenticate_user:
\* ^[\w\.\+\-]+\@[a-zA-Z0-9\-]+\.[a-zA-Z0-9\-\.]+$  or  ^[\w]+$
\* The characters of the identifiers of the model; LF is a line feed.
Chars(s) ==
    CASE s = "ana@x.io" -> <<"a", "n", "a", "@", "x", ".", "i", "o">>
      [] s = "bob@x.io" -> <<"b", "o", "b", "@", "x", ".", "i", "o">>
      [] s = "Ana@X.io" -> <<"A", "n", "a", "@", "X", ".", "i", "o">>
      [] s = "ana" -> <<"a", "n", "a">>
      [] s = "not an email" -> <<"n", "o", "t", " ", "a", "n", " ", "e", "m", "a", "i", "l">>
      [] s = "ana@x" -> <<"a", "n", "a", "@", "x">>
      [] s = "an.a" -> <<"a", "n", ".", "a">>
      [] s = "ana@@x.io" -> <<"a", "n", "a", "@", "@", "x", ".", "i", "o">>
      [] s = "ana_2" -> <<"a", "n", "a", "_", "2">>
      [] s = "ana@x.io<LF>" -> <<"a", "n", "a", "@", "x", ".", "i", "o", "LF">>
      [] s = "" -> <<>>

\* Character classes of the regular expression
WordClass ==
    {"a", "b", "c", "e", "i", "l", "m", "n", "o", "t", "x", "A", "X",
     "2", "_"}
LocalClass == WordClass \cup {".", "+", "-"}
DomainClass == (WordClass \ {"_"}) \cup {"-"}

\* cs[a..b] is not empty and all of its characters are in class
AllIn(cs, a, b, class) ==
    /\ a <= b
    /\ \A k \in a..b : cs[k] \in class

\* $ matches at the end and before a line feed that ends the string
BeforeLastLF(cs) ==
    IF Len(cs) > 0 /\ cs[Len(cs)] = "LF"
    THEN SubSeq(cs, 1, Len(cs) - 1) ELSE cs

\* ^[\w\.\+\-]+\@[a-zA-Z0-9\-]+\.[a-zA-Z0-9\-\.]+$
MatchesEmailShape(cs) ==
    \E at \in 1..Len(cs), dot \in 1..Len(cs) :
       /\ cs[at] = "@"
       /\ cs[dot] = "."
       /\ AllIn(cs, 1, at - 1, LocalClass)
       /\ AllIn(cs, at + 1, dot - 1, DomainClass)
       /\ AllIn(cs, dot + 1, Len(cs), DomainClass \cup {"."})

\* ^[\w]+$
MatchesBareWord(cs) == AllIn(cs, 1, Len(cs), WordClass)

\* re.match(email_regex, username)
MatchesEmailRegex(s) ==
    \/ MatchesEmailShape(Chars(s))
    \/ MatchesEmailShape(BeforeLastLF(Chars(s)))
    \/ MatchesBareWord(Chars(s))
    \/ MatchesBareWord(BeforeLastLF(Chars(s)))

\* '@' in username
ContainsAt(s) == \E k \in 1..Len(Chars(s)) : Chars(s)[k] = "@"

\* authenticate_user looking a bare word up like an email
authenticate_user_bare_as_email(us, username, password) ==
    IF ~MatchesEmailRegex(username)
    THEN Out(us, 400, "Formato de e-mail invalido", None)
    ELSE LET u == get_user_by_email(us, username)
         IN IF u = None
            THEN Out(us, 400, "E-mail ou senha incorretos", None)
            ELSE IF ~verify_password(password, Val(u).password)
            THEN Out(us, 400, "E-mail ou senha incorretos", None)
            ELSE Out(us, 200, "", Some(Val(u).id))

\* authenticate_user telling an unknown email from a wrong password
authenticate_user_tells_unknown(us, username, password) ==
    IF ~MatchesEmailRegex(username)
    THEN Out(us, 400, "Formato de e-mail invalido", None)
    ELSE IF ContainsAt(username)
    THEN LET u == get_user_by_email(us, username)
         IN IF u = None
            THEN Out(us, 404, "Usuario nao encontrado", None)
            ELSE IF ~verify_password(password, Val(u).password)
            THEN Out(us, 400, "E-mail ou senha incorretos", None)
            ELSE Out(us, 200, "", Some(Val(u).id))
    ELSE Out(us, 400, "Autenticacao por nome de usuario nao suportada", None)

authenticate_user(us, username, password) ==
    IF ~MatchesEmailRegex(username)
    THEN Out(us, 400, "Formato de e-mail invalido", None)
    ELSE IF ContainsAt(username)
    THEN LET u == get_user_by_email(us, username)
         IN IF u = None
            THEN Out(us, 400, "E-mail ou senha incorretos", None)
            ELSE IF ~verify_password(password, Val(u).password)
            THEN Out(us, 400, "E-mail ou senha incorretos", None)
            ELSE Out(us, 200, "", Some(Val(u).id))
    ELSE Out(us, 400, "Autenticacao por nome de usuario nao suportada", None)

\* jwt.encode(payload, key): the payload signed with the key
jwt_encode(sub, type, exp, key) ==
    [sub |-> sub, type |-> type, exp |-> exp, key |-> key]

\* jwt.decode(token, key): the signature is checked first, then the expiry
jwt_decode(token, key, t) ==
    IF token.key # key THEN "InvalidSignatureError"
    ELSE IF token.exp <= t THEN "ExpiredSignatureError"
    ELSE "ok"

create_access_token(sub, expires_delta, t) ==
    jwt_encode(sub,
               "access",
               t + (IF expires_delta # None THEN Val(expires_delta)
                    ELSE Hours(ACCESS_TOKEN_EXPIRE_HOURS)),
               SECRET_KEY)

create_refresh_token(sub, expires_delta, t) ==
    jwt_encode(sub,
               "refresh",
               t + (IF expires_delta # None THEN Val(expires_delta)
                    ELSE Days(REFRESH_TOKEN_EXPIRE_DAYS)),
               SECRET_KEY)

\* get_current_user without the check of the type tag
get_current_user_any_type(us, token, t) ==
    LET d == jwt_decode(token, SECRET_KEY, t)
    IN IF d = "ExpiredSignatureError"
       THEN Out(us, 401, "Token expirado", None)
       ELSE IF d # "ok"
       THEN Out(us, 401, "Nao autenticado/Logado!", None)
       ELSE IF token.sub = ""
       THEN Out(us, 401, "Nao autenticado/Logado!", None)
       ELSE LET u == get_user_by_email(us, token.sub)
            IN IF u = None
               THEN Out(us, 401, "Nao autenticado/Logado!", None)
               ELSE Out(us, 200, "", Some(Val(u).id))

\* get_current_user reading the type tag before the token is verified
get_current_user_type_first(us, token, t) ==
    IF token.type # "access"
    THEN Out(us, 401, "Token invalido para esta operacao", None)
    ELSE get_current_user_any_type(us, token, t)

\* get_current_user refusing the token of an account that is not active
get_current_user_active_only(us, token, t) ==
    LET o == get_current_user_any_type(us, token, t)
    IN IF o.status = 200 /\ token.type # "access"
       THEN Out(us, 401, "Token invalido para esta operacao", None)
       ELSE IF o.status = 200 /\ ~us[Val(o.user)].is_active
       THEN Out(us, 401, "Nao autenticado/Logado!", None)
       ELSE o

get_current_user(us, token, t) ==
    LET d == jwt_decode(token, SECRET_KEY, t)
    IN IF d = "ExpiredSignatureError"
       THEN Out(us, 401, "Token expirado", None)
       ELSE IF d # "ok"
       THEN Out(us, 401, "Nao autenticado/Logado!", None)
       ELSE IF token.sub = ""
       THEN Out(us, 401, "Nao autenticado/Logado!", None)
       ELSE IF token.type # "access"
       THEN Out(us, 401, "Token invalido para esta operacao", None)
       ELSE LET u == get_user_by_email(us, token.sub)
            IN IF u = None
               THEN Out(us, 401, "Nao autenticado/Logado!", None)
               ELSE Out(us, 200, "", Some(Val(u).id))

\* Returns the subject in field detail when status is 200.
verify_refresh_token(token, t) ==
    LET d == jwt_decode(token, SECRET_KEY, t)
    IN IF d = "ExpiredSignatureError"
       THEN [status |-> 401, detail |-> "Refresh token expirado"]
       ELSE IF d # "ok"
       THEN [status |-> 401, detail |-> "Erro ao verificar o refresh token"]
       ELSE IF token.sub = ""
       THEN [status |-> 401, detail |-> "Refresh token invalido"]
       ELSE IF token.type # "refresh"
       THEN [status |-> 401, detail |-> "Token invalido para esta operacao"]
       ELSE [status |-> 200, detail |-> token.sub]

\* The environment of a configured server
Configured == [API_USER |-> Some("admin"), API_PASS |-> Some("s3cret")]

\* get_basic_credentials accepting a request when either value is right
get_basic_credentials_either(env, username, password) ==
    IF \/ env.API_USER = None \/ Val(env.API_USER) = ""
       \/ env.API_PASS = None \/ Val(env.API_PASS) = ""
    THEN [status |-> 500, detail |-> "Configuracao de autenticacao incompleta"]
    ELSE IF ~(username = Val(env.API_USER) \/ password = Val(env.API_PASS))
    THEN [status |-> 401, detail |-> "Usuario ou senha incorretos"]
    ELSE [status |-> 200, detail |-> username]

\* os.getenv gives None for a variable that is not set; not api_user holds
\* for None and for the empty string.  Returns the username in field detail
\* when status is 200.
get_basic_credentials(env, username, password) ==
    IF \/ env.API_USER = None \/ Val(env.API_USER) = ""
       \/ env.API_PASS = None \/ Val(env.API_PASS) = ""
    THEN [status |-> 500, detail |-> "Configuracao de autenticacao incompleta"]
    ELSE IF ~(username = Val(env.API_USER) /\ password = Val(env.API_PASS))
    THEN [status |-> 401, detail |-> "Usuario ou senha incorretos"]
    ELSE [status |-> 200, detail |-> username]

----------------------------------------------------------------------------
(* cruds/security_crud.py: the account lifecycle *)

\* The plan of a day count, with the fallback of activate_user_by_email
PlanOfDays_default_mensal(days, current) ==
    CASE days = 1 -> Some("diario")
      [] days = 7 -> Some("semanal")
      [] days = 30 -> Some("mensal")
      [] OTHER -> Some("mensal")

PlanOfDays(days, current) ==
    CASE days = 1 -> Some("diario")
      [] days = 7 -> Some("semanal")
      [] days = 30 -> Some("mensal")
      [] OTHER -> current

\* activate_user whose failed commit leaves is_active set
activate_user_half_committed(us, user_id, days, t, ok) ==
    LET u == get_user_by_id(us, user_id)
    IN IF u = None
       THEN Out(us, 404, "Usuario nao encontrado", None)
       ELSE IF Val(u).is_active
       THEN Out(us, 400, "Usuario ja esta ativado", None)
       ELSE IF ~ok
       THEN Out([us EXCEPT ![user_id].is_active = TRUE],
                500, "Erro ao ativar usuario", None)
       ELSE Out([us EXCEPT ![user_id].current_plan =
                                PlanOfDays(days, Val(u).current_plan),
                            ![user_id].is_active = TRUE,
                            ![user_id].activated_at = Some(t)],
                200, "", Some(user_id))

\* activate_user without the check of is_active
activate_user_unchecked(us, user_id, days, t, ok) ==
    LET u == get_user_by_id(us, user_id)
    IN IF u = None
       THEN Out(us, 404, "Usuario nao encontrado", None)
       ELSE IF ~ok
       THEN Out(us, 500, "Erro ao ativar usuario", None)
       ELSE Out([us EXCEPT ![user_id].current_plan =
                                PlanOfDays(days, Val(u).current_plan),
                            ![user_id].is_active = TRUE,
                            ![user_id].activated_at = Some(t)],
                200, "", Some(user_id))

\* activate_user without the assignment of activated_at
activate_user_no_stamp(us, user_id, days, t, ok) ==
    LET u == get_user_by_id(us, user_id)
    IN IF u = None
       THEN Out(us, 404, "Usuario nao encontrado", None)
       ELSE IF Val(u).is_active
       THEN Out(us, 400, "Usuario ja esta ativado", None)
       ELSE IF ~ok
       THEN Out(us, 500, "Erro ao ativar usuario", None)
       ELSE Out([us EXCEPT ![user_id].current_plan =
                                PlanOfDays(days, Val(u).current_plan),
                            ![user_id].is_active = TRUE],
                200, "", Some(user_id))

activate_user(us, user_id, days, t, ok) ==
    LET u == get_user_by_id(us, user_id)
    IN IF u = None
       THEN Out(us, 404, "Usuario nao encontrado", None)
       ELSE IF Val(u).is_active
       THEN Out(us, 400, "Usuario ja esta ativado", None)
       ELSE IF ~ok
       THEN Out(us, 500, "Erro ao ativar usuario", None)
       ELSE Out([us EXCEPT ![user_id].current_plan =
                                PlanOfDays(days, Val(u).current_plan),
                            ![user_id].is_active = TRUE,
                            ![user_id].activated_at = Some(t)],
                200, "", Some(user_id))

\* deactivate_user that leaves current_plan in place
deactivate_user_keeps_plan(us, user_id, ok) ==
    LET u == get_user_by_id(us, user_id)
    IN IF u = None
       THEN Out(us, 404, "Usuario nao encontrado", None)
       ELSE IF ~Val(u).is_active
       THEN Out(us, 400, "Usuario ja esta desativado", None)
       ELSE IF ~ok
       THEN Out(us, 500, "Erro ao desativar usuario", None)
       ELSE Out([us EXCEPT ![user_id].is_active = FALSE,
                            ![user_id].activated_at = None],
                200, "", Some(user_id))

deactivate_user(us, user_id, ok) ==
    LET u == get_user_by_id(us, user_id)
    IN IF u = None
       THEN Out(us, 404, "Usuario nao encontrado", None)
       ELSE IF ~Val(u).is_active
       THEN Out(us, 400, "Usuario ja esta desativado", None)
       ELSE IF ~ok
       THEN Out(us, 500, "Erro ao desativar usuario", None)
       ELSE Out([us EXCEPT ![user_id].is_active = FALSE,
                            ![user_id].activated_at = None,
                            ![user_id].current_plan = None],
                200, "", Some(user_id))


\* verify_user_activation_to_login comparing with >= instead of >
verify_user_activation_early(us, user_id, t, ok) ==
    LET u == get_user_by_id(us, user_id)
    IN IF u = None
       THEN Out(us, 404, "Usuario nao encontrado", None)
       ELSE IF Val(u).is_superuser
       THEN Out(us, 200, "", Some(user_id))
       ELSE IF /\ Val(u).activated_at # None
               /\ Val(u).current_plan # None
               /\ Lower(Val(Val(u).current_plan)) \in DOMAIN PLAN_DURATIONS
               /\ t >= Val(Val(u).activated_at)
                        + Days(PLAN_DURATIONS[Lower(Val(Val(u).current_plan))])
       THEN IF ~ok
            THEN Out(us, 500, "Erro ao verificar ativacao do usuario", None)
            ELSE Out([us EXCEPT ![user_id].is_active = FALSE,
                                 ![user_id].activated_at = None,
                                 ![user_id].current_plan = None],
                     403, "Plano expirado. Renove sua assinatura.", None)
       ELSE Out(us, 200, "", Some(user_id))

\* verify_user_activation_to_login raising before the commit: the
\* deactivation is lost when the session closes
verify_user_activation_uncommitted(us, user_id, t, ok) ==
    LET u == get_user_by_id(us, user_id)
    IN IF u = None
       THEN Out(us, 404, "Usuario nao encontrado", None)
       ELSE IF Val(u).is_superuser
       THEN Out(us, 200, "", Some(user_id))
       ELSE IF /\ Val(u).activated_at # None
               /\ Val(u).current_plan # None
               /\ Lower(Val(Val(u).current_plan)) \in DOMAIN PLAN_DURATIONS
               /\ t > Val(Val(u).activated_at)
                        + Days(PLAN_DURATIONS[Lower(Val(Val(u).current_plan))])
       THEN Out(us, 403, "Plano expirado. Renove sua assinatura.", None)
       ELSE Out(us, 200, "", Some(user_id))

\* verify_user_activation_to_login without the exemption of superusers
verify_user_activation_no_exemption(us, user_id, t, ok) ==
    LET u == get_user_by_id(us, user_id)
    IN IF u = None
       THEN Out(us, 404, "Usuario nao encontrado", None)
       ELSE IF /\ Val(u).activated_at # None
               /\ Val(u).current_plan # None
               /\ Lower(Val(Val(u).current_plan)) \in DOMAIN PLAN_DURATIONS
               /\ t > Val(Val(u).activated_at)
                        + Days(PLAN_DURATIONS[Lower(Val(Val(u).current_plan))])
       THEN IF ~ok
            THEN Out(us, 500, "Erro ao verificar ativacao do usuario", None)
            ELSE Out([us EXCEPT ![user_id].is_active = FALSE,
                                 ![user_id].activated_at = None,
                                 ![user_id].current_plan = None],
                     403, "Plano expirado. Renove sua assinatura.", None)
       ELSE Out(us, 200, "", Some(user_id))

\* verify_user_activation_to_login counting an account without a plan as a
\* daily one
verify_user_activation_null_plan_daily(us, user_id, t, ok) ==
    LET u == get_user_by_id(us, user_id)
        plan == IF u # None /\ Val(u).current_plan # None
                THEN Lower(Val(Val(u).current_plan)) ELSE "diario"
    IN IF u = None
       THEN Out(us, 404, "Usuario nao encontrado", None)
       ELSE IF Val(u).is_superuser
       THEN Out(us, 200, "", Some(user_id))
       ELSE IF /\ Val(u).activated_at # None
               /\ plan \in DOMAIN PLAN_DURATIONS
               /\ t > Val(Val(u).activated_at) + Days(PLAN_DURATIONS[plan])
       THEN IF ~ok
            THEN Out(us, 500, "Erro ao verificar ativacao do usuario", None)
            ELSE Out([us EXCEPT ![user_id].is_active = FALSE,
                                 ![user_id].activated_at = None,
                                 ![user_id].current_plan = None],
                     403, "Plano expirado. Renove sua assinatura.", None)
       ELSE Out(us, 200, "", Some(user_id))

verify_user_activation_to_login(us, user_id, t, ok) ==
    LET u == get_user_by_id(us, user_id)
    IN IF u = None
       THEN Out(us, 404, "Usuario nao encontrado", None)
       ELSE IF Val(u).is_superuser
       THEN Out(us, 200, "", Some(user_id))
       ELSE IF /\ Val(u).activated_at # None
               /\ Val(u).current_plan # None
               /\ Lower(Val(Val(u).current_plan)) \in DOMAIN PLAN_DURATIONS
               /\ t > Val(Val(u).activated_at)
                        + Days(PLAN_DURATIONS[Lower(Val(Val(u).current_plan))])
       THEN IF ~ok
            THEN Out(us, 500, "Erro ao verificar ativacao do usuario", None)
            ELSE Out([us EXCEPT ![user_id].is_active = FALSE,
                                 ![user_id].activated_at = None,
                                 ![user_id].current_plan = None],
                     403, "Plano expirado. Renove sua assinatura.", None)
       ELSE Out(us, 200, "", Some(user_id))

\* activate_user_by_email without the fallback to 'mensal'
activate_user_by_email_any_plan(us, email, plan_type, t, ok) ==
    LET u == get_user_by_email(us, email)
    IN IF u = None
       THEN Out(us, 404, "Usuario nao encontrado", None)
       ELSE IF ~ok
       THEN Out(us, 500, "Erro ao ativar usuario", None)
       ELSE Out([us EXCEPT ![Val(u).id].is_active = TRUE,
                            ![Val(u).id].activated_at = Some(t),
                            ![Val(u).id].current_plan = Some(plan_type)],
                200, "", Some(Val(u).id))

\* activate_user_by_email keeping the code 'anual' of the webhook
activate_user_by_email_accepts_anual(us, email, plan_type, t, ok) ==
    LET u == get_user_by_email(us, email)
        plan == IF plan_type \notin DOMAIN PLAN_DURATIONS \cup {"anual"}
                THEN "mensal" ELSE plan_type
    IN IF u = None
       THEN Out(us, 404, "Usuario nao encontrado", None)
       ELSE IF ~ok
       THEN Out(us, 500, "Erro ao ativar usuario", None)
       ELSE Out([us EXCEPT ![Val(u).id].is_active = TRUE,
                            ![Val(u).id].activated_at = Some(t),
                            ![Val(u).id].current_plan = Some(plan)],
                200, "", Some(Val(u).id))

\* activate_user_by_email refusing an account that is active, as
\* activate_user does
activate_user_by_email_checked(us, email, plan_type, t, ok) ==
    LET u == get_user_by_email(us, email)
        plan == IF plan_type \notin DOMAIN PLAN_DURATIONS
                THEN "mensal" ELSE plan_type
    IN IF u = None
       THEN Out(us, 404, "Usuario nao encontrado", None)
       ELSE IF Val(u).is_active
       THEN Out(us, 400, "Usuario ja esta ativado", None)
       ELSE IF ~ok
       THEN Out(us, 500, "Erro ao ativar usuario", None)
       ELSE Out([us EXCEPT ![Val(u).id].is_active = TRUE,
                            ![Val(u).id].activated_at = Some(t),
                            ![Val(u).id].current_plan = Some(plan)],
                200, "", Some(Val(u).id))

activate_user_by_email(us, email, plan_type, t, ok) ==
    LET u == get_user_by_email(us, email)
        plan == IF plan_type \notin DOMAIN PLAN_DURATIONS
                THEN "mensal" ELSE plan_type
    IN IF u = None
       THEN Out(us, 404, "Usuario nao encontrado", None)
       ELSE IF ~ok
       THEN Out(us, 500, "Erro ao ativar usuario", None)
       ELSE Out([us EXCEPT ![Val(u).id].is_active = TRUE,
                            ![Val(u).id].activated_at = Some(t),
                            ![Val(u).id].current_plan = Some(plan)],
                200, "", Some(Val(u).id))

----------------------------------------------------------------------------
(* Requests *)

Init ==
    /\ users = <<>>
    /\ nextId = 1
    /\ now = 0
    /\ resp = Resp("start", 200, "", None, None, <<>>)
    /\ held = None
    /\ pending = <<>>
    /\ environ = Configured

\* POST /user
CreateUser(email, password, is_superuser, ok, cap) ==
    /\ nextId <= cap
    /\ LET o == create_user(users, nextId, email, password, is_superuser, ok)
       IN /\ users' = o.users
          /\ nextId' = IF o.status = 200 THEN nextId + 1 ELSE nextId
          /\ resp' = Resp("create_user", o.status, o.detail, o.user, None,
                          <<"create_user">>)
    /\ UNCHANGED <<now, held, pending, environ>>

\* security.activate_user
ActivateUser(user_id, days, ok) ==
    /\ LET o == activate_user(users, user_id, days, now, ok)
       IN /\ users' = o.users
          /\ resp' = Resp("activate_user", o.status, o.detail, o.user, None,
                          <<"activate_user">>)
    /\ UNCHANGED <<nextId, now, held, pending, environ>>

\* security.deactivate_user
DeactivateUser(user_id, ok) ==
    /\ LET o == deactivate_user(users, user_id, ok)
       IN /\ users' = o.users
          /\ resp' = Resp("deactivate_user", o.status, o.detail, o.user, None,
                          <<"deactivate_user">>)
    /\ UNCHANGED <<nextId, now, held, pending, environ>>

\* security.verify_user_activation_to_login
VerifyUserActivationToLogin(user_id, ok) ==
    /\ LET o == verify_user_activation_to_login(users, user_id, now, ok)
       IN /\ users' = o.users
          /\ resp' = Resp("verify_user_activation_to_login", o.status,
                          o.detail, o.user, None,
                          <<"verify_user_activation_to_login">>)
    /\ UNCHANGED <<nextId, now, held, pending, environ>>

\* security.activate_user_by_email
ActivateUserByEmail(email, plan_type, ok) ==
    /\ LET o == activate_user_by_email(users, email, plan_type, now, ok)
       IN /\ users' = o.users
          /\ resp' = Resp("activate_user_by_email", o.status, o.detail,
                          o.user, None, <<"activate_user_by_email">>)
    /\ UNCHANGED <<nextId, now, held, pending, environ>>

\* The plan the Kirvano webhook derives from the payment
webhook_plan(payment_type, charge_frequency) ==
    IF payment_type = "ONE_TIME" THEN "diario"
    ELSE IF payment_type = "RECURRING"
    THEN CASE Lower(charge_frequency) = "weekly" -> "semanal"
           [] Lower(charge_frequency) = "monthly" -> "mensal"
           [] Lower(charge_frequency) = "annually" -> "anual"
           [] OTHER -> "mensal"
    ELSE "mensal"

\* POST /user/webhook/kirvano.  email is None when the body carries none.
\* Whatever activate_user_by_email raises is caught and answered with 500.
webhook_kirvano(us, status, email, payment_type, charge_frequency, t, ok) ==
    IF status = "APPROVED" /\ email # None
    THEN LET o == activate_user_by_email(
                      us, Val(email),
                      webhook_plan(payment_type, charge_frequency), t, ok)
         IN IF o.status = 200
            THEN [users |-> o.users,
                  resp |-> Resp("webhook_kirvano", 200, "received", None, None,
                                <<"activate_user_by_email">>)]
            ELSE [users |-> o.users,
                  resp |-> Resp("webhook_kirvano", 500,
                                "Erro ao processar webhook", None, None,
                                <<"activate_user_by_email">>)]
    ELSE [users |-> us,
          resp |-> Resp("webhook_kirvano", 200, "received", None, None, <<>>)]

WebhookKirvano(status, email, payment_type, charge_frequency, ok) ==
    /\ LET o == webhook_kirvano(users, status, email, payment_type,
                                charge_frequency, now, ok)
       IN /\ users' = o.users
          /\ resp' = o.resp
    /\ UNCHANGED <<nextId, now, held, pending, environ>>

\* POST /user/login.  okv and okl: whether the commit of the expiry
\* deactivation and the commit of last_login go through.
\* login_for_access_token without the call of
\* verify_user_activation_to_login
login_for_access_token_ungated(us, username, password, t, okv, okl) ==
    LET a == authenticate_user(us, username, password)
    IN IF a.status # 200
       THEN [users |-> us,
             resp |-> Resp("login", a.status, a.detail, None, None,
                           <<"authenticate_user">>)]
       ELSE
          LET user == us[Val(a.user)]
              access_token == create_access_token(user.email, Some(Hours(12)), t)
              refresh_token == create_refresh_token(user.email, Some(Days(30)), t)
              l == user_last_login(us, user.id, t, okl)
              calls == <<"authenticate_user",
                         "verify_user_activation_to_login",
                         "create_access_token", "create_refresh_token",
                         "user_last_login">>
          IN IF l.status # 200
             THEN [users |-> l.users,
                   resp |-> Resp("login", l.status, l.detail, None, None, calls)]
             ELSE [users |-> l.users,
                   resp |-> Resp("login", 200, "", None,
                                 Some([access_token |-> access_token,
                                       refresh_token |-> refresh_token]),
                                 calls)]

\* login_for_access_token enforcing the expiry of the named account before
\* its password is verified
login_for_access_token_check_first(us, username, password, t, okv, okl) ==
    LET n == IF ContainsAt(username)
             THEN get_user_by_email(us, username) ELSE None
        v == IF n = None THEN Out(us, 200, "", None)
             ELSE verify_user_activation_to_login(us, Val(n).id, t, okv)
        a == authenticate_user(us, username, password)
    IN IF a.status # 200
       THEN [users |-> v.users,
             resp |-> Resp("login", a.status, a.detail, None, None,
                           <<"verify_user_activation_to_login",
                             "authenticate_user">>)]
       ELSE IF v.status # 200
       THEN [users |-> v.users,
             resp |-> Resp("login", v.status, v.detail, None, None,
                           <<"verify_user_activation_to_login",
                             "authenticate_user">>)]
       ELSE login_for_access_token_ungated(us, username, password, t, okv, okl)

login_for_access_token(us, username, password, t, okv, okl) ==
    LET a == authenticate_user(us, username, password)
    IN IF a.status # 200
       THEN [users |-> us,
             resp |-> Resp("login", a.status, a.detail, None, None,
                           <<"authenticate_user">>)]
       ELSE
       LET v == verify_user_activation_to_login(us, Val(a.user), t, okv)
       IN IF v.status # 200
          THEN [users |-> v.users,
                resp |-> Resp("login", v.status, v.detail, None, None,
                              <<"authenticate_user",
                                "verify_user_activation_to_login">>)]
          ELSE
          LET user == v.users[Val(v.user)]
              access_token == create_access_token(user.email, Some(Hours(12)), t)
              refresh_token == create_refresh_token(user.email, Some(Days(30)), t)
              l == user_last_login(v.users, user.id, t, okl)
              calls == <<"authenticate_user",
                         "verify_user_activation_to_login",
                         "create_access_token", "create_refresh_token",
                         "user_last_login">>
          IN IF l.status # 200
             THEN [users |-> l.users,
                   resp |-> Resp("login", l.status, l.detail, None, None, calls)]
             ELSE [users |-> l.users,
                   resp |-> Resp("login", 200, "", None,
                                 Some([access_token |-> access_token,
                                       refresh_token |-> refresh_token]),
                                 calls)]

\* keep: whether the client stores the tokens of a successful answer.
LoginForAccessToken(username, password, okv, okl, keep) ==
    /\ LET o == login_for_access_token(users, username, password, now, okv, okl)
       IN /\ users' = o.users
          /\ resp' = o.resp
          /\ held' = IF keep /\ o.resp.status = 200 THEN o.resp.tokens ELSE held
    /\ UNCHANGED <<nextId, now, pending, environ>>

\* POST /user/refresh issuing the access token with the lifetime of login
refresh_access_token_login_lifetime(refresh_token, t) ==
    LET r == verify_refresh_token(refresh_token, t)
    IN IF r.status # 200
       THEN Resp("refresh", r.status, r.detail, None, None,
                 <<"verify_refresh_token">>)
       ELSE Resp("refresh", 200, "", None,
                 Some([access_token |->
                           create_access_token(r.detail, Some(Hours(12)), t),
                       refresh_token |-> refresh_token]),
                 <<"verify_refresh_token", "create_access_token">>)

\* POST /user/refresh looking the subject up in table users
refresh_access_token_known_account(refresh_token, t) ==
    LET r == verify_refresh_token(refresh_token, t)
    IN IF r.status # 200
       THEN Resp("refresh", r.status, r.detail, None, None,
                 <<"verify_refresh_token">>)
       ELSE IF get_user_by_email(users, r.detail) = None
       THEN Resp("refresh", 401, "Nao autenticado/Logado!", None, None,
                 <<"verify_refresh_token">>)
       ELSE Resp("refresh", 200, "", None,
                 Some([access_token |->
                           create_access_token(r.detail, Some(Hours(6)), t),
                       refresh_token |-> refresh_token]),
                 <<"verify_refresh_token", "create_access_token">>)

\* POST /user/refresh
refresh_access_token(refresh_token, t) ==
    LET r == verify_refresh_token(refresh_token, t)
    IN IF r.status # 200
       THEN Resp("refresh", r.status, r.detail, None, None,
                 <<"verify_refresh_token">>)
       ELSE Resp("refresh", 200, "", None,
                 Some([access_token |->
                           create_access_token(r.detail, Some(Hours(6)), t),
                       refresh_token |-> refresh_token]),
                 <<"verify_refresh_token", "create_access_token">>)

\* The tokens a client can present: those it kept.
HeldTokens ==
    IF held = None THEN {}
    ELSE {Val(held).access_token, Val(held).refresh_token}

RefreshAccessToken(token, keep) ==
    /\ token \in HeldTokens
    /\ resp' = refresh_access_token(token, now)
    /\ held' = IF keep /\ resp'.status = 200 THEN resp'.tokens ELSE held
    /\ UNCHANGED <<users, nextId, now, pending, environ>>

\* GET /user/me: the handler returns what get_current_user resolved.
GetMe(token) ==
    /\ token \in HeldTokens
    /\ LET o == get_current_user(users, token, now)
       IN resp' = Resp("me", o.status, o.detail, o.user, None,
                       <<"get_current_user">>)
    /\ UNCHANGED <<users, nextId, now, held, pending, environ>>

\* UserCreate.validate_email: the value the schema hands on, None when it
\* raises ValueError
validate_email(v) == IF ContainsAt(v) THEN Some(Lower(v)) ELSE None

\* POST /user up to the lookup of the email: request r has validated its
\* body and found the email free or in use.
CreateUserBegin(r, email, password, is_superuser) ==
    /\ r \notin DOMAIN pending
    /\ LET v == validate_email(email)
       IN IF v = None
          THEN /\ resp' = Resp("create_user", 422, "Invalid email format",
                               None, None, <<>>)
               /\ pending' = pending
          ELSE IF get_user_by_email(users, Val(v)) # None
          THEN /\ resp' = Resp("create_user", 400, "Email ja esta em uso",
                               None, None, <<"create_user">>)
               /\ pending' = pending
          ELSE /\ resp' = resp
               /\ pending' = (r :> [op |-> "create_user",
                                    email |-> Val(v), password |-> password,
                                    is_superuser |-> is_superuser]) @@ pending
    /\ UNCHANGED <<users, nextId, now, held, environ>>

\* POST /user from db.add to the response.
CreateUserCommit(r, ok, cap) ==
    /\ r \in DOMAIN pending
    /\ pending[r].op = "create_user"
    /\ nextId <= cap
    /\ LET o == create_user_commit(users, nextId, pending[r].email,
                                   pending[r].password,
                                   pending[r].is_superuser, ok)
       IN /\ users' = o.users
          /\ nextId' = IF o.status = 200 THEN nextId + 1 ELSE nextId
          /\ resp' = Resp("create_user", o.status, o.detail, o.user, None,
                          <<"create_user">>)
    /\ pending' = [q \in DOMAIN pending \ {r} |-> pending[q]]
    /\ UNCHANGED <<now, held, environ>>

\* PUT /user/me and PUT /user/{user_id}: crud_user.update_user
UpdateUser(user_id, user, ok) ==
    /\ LET o == update_user(users, user_id, user, ok)
       IN /\ users' = o.users
          /\ resp' = Resp("update_user", o.status, o.detail, o.user, None,
                          <<"update_user">>)
    /\ UNCHANGED <<nextId, now, held, pending, environ>>

\* A request with any bearer token, one the server issued or not, to a
\* route that depends on get_current_user.
GetCurrentUser(token) ==
    /\ LET o == get_current_user(users, token, now)
       IN resp' = Resp("me", o.status, o.detail, o.user, None,
                       <<"get_current_user">>)
    /\ UNCHANGED <<users, nextId, now, held, pending, environ>>

\* POST /user/refresh with any token.
VerifyRefreshToken(token) ==
    /\ resp' = refresh_access_token(token, now)
    /\ UNCHANGED <<users, nextId, now, held, pending, environ>>

\* security.authenticate_user
AuthenticateUser(username, password) ==
    /\ LET o == authenticate_user(users, username, password)
       IN /\ users' = o.users
          /\ resp' = Resp("authenticate_user", o.status, o.detail, o.user,
                          None, <<"authenticate_user">>)
    /\ UNCHANGED <<nextId, now, held, pending, environ>>

\* security.get_basic_credentials
GetBasicCredentials(username, password) ==
    /\ LET c == get_basic_credentials(environ, username, password)
       IN resp' = Resp("get_basic_credentials", c.status, c.detail, None,
                       None, <<"get_basic_credentials">>)
    /\ UNCHANGED <<users, nextId, now, held, pending, environ>>

\* POST /user with its dependency get_basic_credentials
CreateUserWithCredentials(username, password, email, pw, is_superuser, cap) ==
    LET c == get_basic_credentials(environ, username, password)
    IN \/ /\ c.status # 200
          /\ resp' = Resp("create_user", c.status, c.detail, None, None,
                          <<"get_basic_credentials">>)
          /\ UNCHANGED <<users, nextId, now, held, pending, environ>>
       \/ /\ c.status = 200
          /\ CreateUser(email, pw, is_superuser, TRUE, cap)

\* The lifecycle functions in concurrent sessions.  A function loads the
\* row (a plain SELECT, read committed), checks it and assigns attributes
\* in its session; db.commit() then flushes one UPDATE of the row that
\* carries the columns whose value the session changed.

\* Whether the function gets to db.commit(): activate_user,
\* activate_user_by_email and deactivate_user when no check raised, and
\* verify_user_activation_to_login when it found the plan expired.
ReachesCommit(op, o) ==
    IF op = "verify_user_activation_to_login"
    THEN o.status = 403 ELSE o.status = 200

\* The columns of the UPDATE: those assigned a value other than the loaded
\* one.  An assigned datetime.now() never equals a stored instant.
ChangedColumns(loaded, assigned) ==
    {c \in DOMAIN assigned :
        \/ assigned[c] # loaded[c]
        \/ c = "activated_at" /\ assigned[c] # None}

\* UPDATE users SET <writes> WHERE id = ...
Flush(row, writes) ==
    [c \in DOMAIN row |-> IF c \in DOMAIN writes THEN writes[c] ELSE row[c]]

\* Session r runs a function on row id up to its commit.  o is what the
\* function makes of the table it read, failed what it raises if its commit
\* fails.
SessionBegin(r, op, id, o, failed) ==
    /\ r \notin DOMAIN pending
    /\ IF ReachesCommit(op, o)
       THEN /\ resp' = resp
            /\ pending' =
                  (r :> [op |-> op, user_id |-> id,
                         writes |-> [c \in ChangedColumns(users[id],
                                                          o.users[id])
                                       |-> o.users[id][c]],
                         status |-> o.status, detail |-> o.detail,
                         failed |-> failed.detail]) @@ pending
       ELSE /\ resp' = Resp(op, o.status, o.detail, o.user, None, <<op>>)
            /\ pending' = pending
    /\ UNCHANGED <<users, nextId, now, held, environ>>

ActivateUserBegin(r, user_id, days) ==
    SessionBegin(r, "activate_user", user_id,
                 activate_user(users, user_id, days, now, TRUE),
                 activate_user(users, user_id, days, now, FALSE))

DeactivateUserBegin(r, user_id) ==
    SessionBegin(r, "deactivate_user", user_id,
                 deactivate_user(users, user_id, TRUE),
                 deactivate_user(users, user_id, FALSE))

ActivateUserByEmailBegin(r, email, plan_type) ==
    LET u == get_user_by_email(users, email)
    IN SessionBegin(r, "activate_user_by_email",
                    IF u = None THEN 0 ELSE Val(u).id,
                    activate_user_by_email(users, email, plan_type, now, TRUE),
                    activate_user_by_email(users, email, plan_type, now, FALSE))

VerifyUserActivationToLoginBegin(r, user_id) ==
    SessionBegin(r, "verify_user_activation_to_login", user_id,
                 verify_user_activation_to_login(users, user_id, now, TRUE),
                 verify_user_activation_to_login(users, user_id, now, FALSE))

\* db.commit() of session r and the answer of its function: the UPDATE is
\* applied to the row as it is stored now, or fails and is rolled back.
SessionCommit(r, ok) ==
    /\ r \in DOMAIN pending
    /\ pending[r].op # "create_user"
    /\ LET p == pending[r]
       IN IF ok
          THEN /\ users' = [users EXCEPT
                              ![p.user_id] = Flush(@, p.writes)]
               /\ resp' = Resp(p.op, p.status, p.detail,
                               IF p.status = 200
                               THEN Some(p.user_id) ELSE None,
                               None, <<p.op>>)
          ELSE /\ users' = users
               /\ resp' = Resp(p.op, 500, p.failed, None, None, <<p.op>>)
    /\ pending' = [q \in DOMAIN pending \ {r} |-> pending[q]]
    /\ UNCHANGED <<nextId, now, held, environ>>

\* crud_user.delete_user: True when the row was deleted, False when there
\* was none (in field detail)
delete_user(us, user_id, ok) ==
    IF get_user_by_id(us, user_id) = None
    THEN Out(us, 200, "False", None)
    ELSE IF ~ok
    THEN Out(us, 500, "Erro ao excluir usuario", None)
    ELSE Out([i \in DOMAIN us \ {user_id} |-> us[i]], 200, "True",
             Some(user_id))

DeleteUser(user_id, ok) ==
    /\ LET o == delete_user(users, user_id, ok)
       IN /\ users' = o.users
          /\ resp' = Resp("delete_user", o.status, o.detail, o.user, None,
                          <<"delete_user">>)
    /\ UNCHANGED <<nextId, now, held, pending, environ>>

\* A route that depends on get_current_user and then calls crud function
\* op, whose outcome is o, for superusers only.
AdminRoute(us, token, t, route, op, o, guarded) ==
    LET c == get_current_user(us, token, t)
    IN IF c.status # 200
       THEN [users |-> us,
             resp |-> Resp(route, c.status, c.detail, None, None,
                           <<"get_current_user">>)]
       ELSE IF guarded /\ ~us[Val(c.user)].is_superuser
       THEN [users |-> us,
             resp |-> Resp(route, 403, "Acesso restrito a administradores",
                           None, None, <<"get_current_user">>)]
       ELSE [users |-> o.users,
             resp |-> Resp(route, o.status, o.detail, o.user, None,
                           <<"get_current_user", op>>)]

\* POST /user/activate/{user_id}/{days} without the check of is_superuser
activate_user_by_id_unguarded(us, token, user_id, days, t, ok) ==
    AdminRoute(us, token, t, "activate_user_by_id", "activate_user",
               activate_user(us, user_id, days, t, ok), FALSE)

\* POST /user/activate/{user_id}/{days}
activate_user_by_id(us, token, user_id, days, t, ok) ==
    AdminRoute(us, token, t, "activate_user_by_id", "activate_user",
               activate_user(us, user_id, days, t, ok), TRUE)

\* POST /user/deactivate/{user_id}
deactivate_user_by_id(us, token, user_id, t, ok) ==
    AdminRoute(us, token, t, "deactivate_user_by_id", "deactivate_user",
               deactivate_user(us, user_id, ok), TRUE)

ActivateUserById(token, user_id, days, ok) ==
    /\ LET o == activate_user_by_id(users, token, user_id, days, now, ok)
       IN /\ users' = o.users
          /\ resp' = o.resp
    /\ UNCHANGED <<nextId, now, held, pending, environ>>

DeactivateUserById(token, user_id, ok) ==
    /\ LET o == deactivate_user_by_id(users, token, user_id, now, ok)
       IN /\ users' = o.users
          /\ resp' = o.resp
    /\ UNCHANGED <<nextId, now, held, pending, environ>>

\* The wall clock advances to a later instant.
Tick(t) ==
    /\ t > now
    /\ now' = t
    /\ UNCHANGED <<users, nextId, resp, held, pending, environ>>

\* The ids a request may name: those that can exist and one that cannot.
UserIds(cap) == 1..(cap + 1)
DayCounts == {1, 7, 30, 15}
PlanTypes == {"diario", "semanal", "anual", "Mensal"}
LoginForms == {[username |-> "ana@x.io", password |-> "pw1"],
               [username |-> "Ana@X.io", password |-> "pw1"],
               [username |-> "bob@x.io", password |-> "pw1"],
               [username |-> "bob@x.io", password |-> WrongPassword],
               [username |-> "ana", password |-> "pw1"],
               [username |-> "not an email", password |-> "pw1"]}
\* Bodies of the Kirvano webhook
WebhookBodies ==
    {[status |-> "APPROVED", email |-> Some("ana@x.io"),
      type |-> "ONE_TIME", charge_frequency |-> ""],
     [status |-> "APPROVED", email |-> Some("Ana@X.io"),
      type |-> "RECURRING", charge_frequency |-> "weekly"],
     [status |-> "APPROVED", email |-> Some("bob@x.io"),
      type |-> "RECURRING", charge_frequency |-> "monthly"],
     [status |-> "APPROVED", email |-> Some("bob@x.io"),
      type |-> "RECURRING", charge_frequency |-> "annually"],
     [status |-> "APPROVED", email |-> Some("ana@x.io"),
      type |-> "RECURRING", charge_frequency |-> "ANNUALLY"],
     [status |-> "APPROVED", email |-> Some("ana@x.io"),
      type |-> "RECURRING", charge_frequency |-> ""],
     [status |-> "APPROVED", email |-> Some("bob@x.io"),
      type |-> "REFUND", charge_frequency |-> ""],
     [status |-> "APPROVED", email |-> None,
      type |-> "ONE_TIME", charge_frequency |-> ""],
     [status |-> "REFUSED", email |-> Some("ana@x.io"),
      type |-> "ONE_TIME", charge_frequency |-> ""]}

\* The lifecycle requests over a database whose commits go through, or
\* (faults) may fail, for at most cap accounts.
Lifecycle(cap, faults) ==
    \E ok \in IF faults THEN BOOLEAN ELSE {TRUE} :
       \/ \E e \in Emails, p \in Passwords, s \in BOOLEAN :
             CreateUser(e, p, s, ok, cap)
       \/ \E i \in UserIds(cap), d \in DayCounts : ActivateUser(i, d, ok)
       \/ \E i \in UserIds(cap) : DeactivateUser(i, ok)
       \/ \E e \in Emails, p \in PlanTypes : ActivateUserByEmail(e, p, ok)
       \/ \E b \in WebhookBodies :
             WebhookKirvano(b.status, b.email, b.type, b.charge_frequency, ok)
       \/ \E i \in UserIds(cap) : VerifyUserActivationToLogin(i, ok)
       \/ \E f \in LoginForms, okl \in IF faults THEN BOOLEAN ELSE {TRUE} :
             LoginForAccessToken(f.username, f.password, ok, okl, FALSE)

\* One account followed through time.
Next ==
    \/ Lifecycle(MaxTimelineUsers, FALSE)
    \/ \E t \in Instants : Tick(t)

Spec == Init /\ [][Next]_vars

\* The same, over a database whose commits may fail.
NextFault ==
    \/ Lifecycle(MaxTimelineUsers, TRUE)
    \/ \E t \in Instants : Tick(t)

SpecFault == Init /\ [][NextFault]_vars

\* A population of accounts at one instant.
InitWide ==
    /\ users = <<>>
    /\ nextId = 1
    /\ now = 24
    /\ resp = Resp("start", 200, "", None, None, <<>>)
    /\ held = None
    /\ pending = <<>>
    /\ environ = Configured

NextWide == Lifecycle(MaxUsers, FALSE)

SpecWide == InitWide /\ [][NextWide]_vars

\* Clients that log in, keep their tokens and present them.
NextTok ==
    \/ \E e \in Emails, p \in Passwords, s \in BOOLEAN :
          CreateUser(e, p, s, TRUE, MaxUsers)
    \/ \E f \in LoginForms :
          LoginForAccessToken(f.username, f.password, TRUE, TRUE, TRUE)
    \/ \E tok \in HeldTokens : GetMe(tok)
    \/ \E tok \in HeldTokens, keep \in BOOLEAN : RefreshAccessToken(tok, keep)
    \/ \E t \in TokenInstants : Tick(t)

SpecTok == Init /\ [][NextTok]_vars

\* Accounts whose only activation is the Kirvano webhook of an approved
\* recurring payment charged annually.
AnnualBodies ==
    {b \in WebhookBodies :
        /\ b.status = "APPROVED"
        /\ b.type = "RECURRING"
        /\ Lower(b.charge_frequency) = "annually"}

NextAnnual ==
    \/ \E e \in Emails, p \in Passwords, s \in BOOLEAN :
          CreateUser(e, p, s, TRUE, MaxUsers)
    \/ \E b \in AnnualBodies :
          WebhookKirvano(b.status, b.email, b.type, b.charge_frequency, TRUE)
    \/ \E i \in UserIds(MaxUsers) : VerifyUserActivationToLogin(i, TRUE)
    \/ \E f \in LoginForms :
          LoginForAccessToken(f.username, f.password, TRUE, TRUE, FALSE)
    \/ \E t \in Instants : Tick(t)

SpecAnnual == Init /\ [][NextAnnual]_vars

\* Requests that create and update accounts, the create requests running
\* concurrently: each is in flight between its lookup and its commit.
MaxInFlight == 2
CreateEmails == {"ana@x.io", "Ana@X.io", "bob@x.io", "ana"}
UserUpdates ==
    {UserUpdate(e, p) : e \in {None, Some("Ana@X.io"), Some("bob@x.io"),
                               Some("Carl@X.io")},
                        p \in {None, Some("pw2")}}

NextEmail ==
    \/ \E r \in 1..MaxInFlight, e \in CreateEmails, p \in Passwords,
          su \in BOOLEAN : CreateUserBegin(r, e, p, su)
    \/ \E r \in 1..MaxInFlight, ok \in BOOLEAN :
          CreateUserCommit(r, ok, MaxUsers)
    \/ \E i \in UserIds(MaxUsers), u \in UserUpdates, ok \in BOOLEAN :
          UpdateUser(i, u, ok)

SpecEmail == Init /\ [][NextEmail]_vars

\* Tokens a client may present: signed with the key of the server or with
\* another key (as is, for the decoder, a string that is no token at all:
\* both raise an InvalidTokenError), of either type, with or without a
\* subject, expiring at 6 h or at 30 days.
BearerTokens ==
    {jwt_encode(sub, type, exp, key) :
        sub \in {"ana@x.io", "bob@x.io", ""},
        type \in {"access", "refresh"},
        exp \in {Hours(6), Days(30)},
        key \in {SECRET_KEY, "other-key"}}

\* The instants of SpecAuth: before, between and after the two expiries.
AuthInstants == {0, 12, 721}

NextAuth ==
    \/ \E e \in Emails, p \in Passwords, su \in BOOLEAN :
          CreateUser(e, p, su, TRUE, MaxUsers)
    \/ \E tok \in BearerTokens : GetCurrentUser(tok)
    \/ \E tok \in BearerTokens : VerifyRefreshToken(tok)
    \/ \E t \in AuthInstants : Tick(t)

SpecAuth == Init /\ [][NextAuth]_vars

\* Credentials of every shape presented to authenticate_user, for accounts
\* that are inactive or active.
NextCred ==
    \/ \E e \in Emails, p \in Passwords, su \in BOOLEAN :
          CreateUser(e, p, su, TRUE, MaxUsers)
    \/ \E i \in UserIds(MaxUsers), d \in DayCounts : ActivateUser(i, d, TRUE)
    \/ \E id \in Identifiers, p \in Passwords \cup {WrongPassword} :
          AuthenticateUser(id, p)

SpecCred == Init /\ [][NextCred]_vars

\* Servers with each configuration of the two secrets, and requests with
\* each combination of right, wrong and empty credentials.
Environments ==
    {[API_USER |-> u, API_PASS |-> p] :
        u \in {None, Some(""), Some("admin"), Some("root")},
        p \in {None, Some(""), Some("s3cret"), Some("guess")}}
BasicUsernames == {"admin", "root", ""}
BasicPasswords == {"s3cret", "guess", ""}

InitBasic ==
    /\ users = <<>>
    /\ nextId = 1
    /\ now = 0
    /\ resp = Resp("start", 200, "", None, None, <<>>)
    /\ held = None
    /\ pending = <<>>
    /\ environ \in Environments

NextBasic ==
    \/ \E u \in BasicUsernames, p \in BasicPasswords :
          GetBasicCredentials(u, p)
    \/ \E u \in BasicUsernames, p \in BasicPasswords, e \in Emails,
          pw \in Passwords, su \in BOOLEAN :
          CreateUserWithCredentials(u, p, e, pw, su, MaxUsers)

SpecBasic == InitBasic /\ [][NextBasic]_vars

\* The lifecycle functions of one account in concurrent sessions.
NextRace ==
    \/ \E e \in Emails, p \in Passwords, su \in BOOLEAN :
          CreateUser(e, p, su, TRUE, MaxTimelineUsers)
    \/ \E r \in 1..MaxInFlight, i \in UserIds(MaxTimelineUsers),
          d \in DayCounts : ActivateUserBegin(r, i, d)
    \/ \E r \in 1..MaxInFlight, i \in UserIds(MaxTimelineUsers) :
          DeactivateUserBegin(r, i)
    \/ \E r \in 1..MaxInFlight, e \in Emails, p \in PlanTypes :
          ActivateUserByEmailBegin(r, e, p)
    \/ \E r \in 1..MaxInFlight, i \in UserIds(MaxTimelineUsers) :
          VerifyUserActivationToLoginBegin(r, i)
    \/ \E r \in 1..MaxInFlight, ok \in BOOLEAN : SessionCommit(r, ok)
    \/ \E t \in Instants : Tick(t)

SpecRace == Init /\ [][NextRace]_vars

\* Every operation that writes a row, over a database whose commits may
\* fail, followed through time.
NextPlan ==
    \/ Lifecycle(MaxTimelineUsers, TRUE)
    \/ \E i \in UserIds(MaxTimelineUsers), u \in UserUpdates, ok \in BOOLEAN :
          UpdateUser(i, u, ok)
    \/ \E t \in Instants : Tick(t)

SpecPlan == Init /\ [][NextPlan]_vars

\* Clients with bearer tokens on the routes for administrators: tokens of
\* a superuser and of an ordinary account, a refresh token, one signed with
\* another key.
AdminTokens ==
    {jwt_encode("bob@x.io", "access", Hours(12), SECRET_KEY),
     jwt_encode("ana@x.io", "access", Hours(12), SECRET_KEY),
     jwt_encode("ana@x.io", "access", Days(30), SECRET_KEY),
     jwt_encode("bob@x.io", "refresh", Days(30), SECRET_KEY),
     jwt_encode("bob@x.io", "access", Hours(12), "other-key")}

AdminInstants == {0, 25}
AdminDays == {1, 15}

NextAdmin ==
    \/ \E e \in Emails, p \in Passwords, su \in BOOLEAN :
          CreateUser(e, p, su, TRUE, MaxUsers)
    \/ \E tok \in AdminTokens, i \in UserIds(MaxUsers), d \in AdminDays,
          ok \in BOOLEAN : ActivateUserById(tok, i, d, ok)
    \/ \E tok \in AdminTokens, i \in UserIds(MaxUsers), ok \in BOOLEAN :
          DeactivateUserById(tok, i, ok)
    \/ \E t \in AdminInstants : Tick(t)

SpecAdmin == Init /\ [][NextAdmin]_vars

\* A client that logs in, keeps its tokens and presents them while its
\* account is activated, deactivated, expires and is deleted.
SessionInstants == {0, 25, 721}
SessionForms == {f \in LoginForms : f.username \in {"ana@x.io", "bob@x.io"}}

NextSession ==
    \/ \E e \in Emails, p \in Passwords, su \in BOOLEAN :
          CreateUser(e, p, su, TRUE, MaxTimelineUsers)
    \/ \E i \in UserIds(MaxTimelineUsers), d \in AdminDays :
          ActivateUser(i, d, TRUE)
    \/ \E i \in UserIds(MaxTimelineUsers) : DeactivateUser(i, TRUE)
    \/ \E i \in UserIds(MaxTimelineUsers), ok \in BOOLEAN : DeleteUser(i, ok)
    \/ \E f \in SessionForms :
          LoginForAccessToken(f.username, f.password, TRUE, TRUE, TRUE)
    \/ \E tok \in HeldTokens : GetMe(tok)
    \/ \E tok \in HeldTokens, keep \in BOOLEAN : RefreshAccessToken(tok, keep)
    \/ \E t \in SessionInstants : Tick(t)

SpecSession == Init /\ [][NextSession]_vars

----------------------------------------------------------------------------
(* Properties *)

\* The duration in hours the specification gives each plan code.
PlanHours(code) ==
    CASE code = "diario" -> 24
      [] code = "semanal" -> 7 * 24
      [] code = "mensal" -> 30 * 24

PlanCodes == {"diario", "semanal", "mensal"}

\* The account is past the expiry of its plan at instant t.
PastExpiry(u, t) ==
    /\ u.activated_at # None
    /\ u.current_plan # None
    /\ Val(u.current_plan) \in PlanCodes
    /\ t > Val(u.activated_at) + PlanHours(Val(u.current_plan))

\* The row after a deactivation.
Cleared(u) ==
    [u EXCEPT !.is_active = FALSE, !.activated_at = None, !.current_plan = None]

\* C1 as stated: in every reachable state every active account is a superuser
\* or has activated_at and current_plan set and its plan not expired.
C1_ActiveImpliesValidPlan ==
    \A i \in DOMAIN users :
        users[i].is_active =>
            \/ users[i].is_superuser
            \/ /\ users[i].activated_at # None
               /\ users[i].current_plan # None
               /\ ~PastExpiry(users[i], now)

\* C1 as amended: every active account has activated_at set, at an instant
\* that is not in the future, and its current_plan is unset or a key of the
\* plan-duration table; the plan may be past its expiry.
C1_ActiveImpliesActivatedAt ==
    \A i \in DOMAIN users :
        users[i].is_active =>
            /\ users[i].activated_at # None
            /\ Val(users[i].activated_at) <= now
            /\ \/ users[i].current_plan = None
               \/ Val(users[i].current_plan) \in PlanCodes

\* An ordinary account that is still active past the expiry of its plan.
C1_Witness ==
    \E i \in DOMAIN users :
        /\ users[i].is_active
        /\ ~users[i].is_superuser
        /\ PastExpiry(users[i], now)

\* The plan code the specification gives a day count of 1, 7 or 30.
CodeOfDays(d) ==
    CASE d = 1 -> "diario"
      [] d = 7 -> "semanal"
      [] d = 30 -> "mensal"

\* C7: activate_user(id, days) with days in {1, 7, 30} on an existing
\* inactive account sets current_plan to the matching code, is_active to
\* true and activated_at to now; on an active account it fails with
\* AlreadyActive (400) and on an unknown id with NotFound (404), and in both
\* failures no account changes.
C7_ActivateUser ==
    [][\A i \in UserIds(MaxUsers), d \in DayCounts :
          ActivateUser(i, d, TRUE) =>
             IF i \notin DOMAIN users
             THEN /\ resp'.status = 404
                  /\ resp'.detail = "Usuario nao encontrado"
                  /\ users' = users
             ELSE IF users[i].is_active
             THEN /\ resp'.status = 400
                  /\ resp'.detail = "Usuario ja esta ativado"
                  /\ users' = users
             ELSE d \in {1, 7, 30} =>
                  /\ resp'.status = 200
                  /\ users' = [users EXCEPT
                                 ![i] = [@ EXCEPT
                                           !.current_plan = Some(CodeOfDays(d)),
                                           !.is_active = TRUE,
                                           !.activated_at = Some(now)]]]_vars

\* A second activate_user was refused while two accounts exist, the active
\* one keeping the weekly plan it was given.
C7_Witness ==
    /\ resp.op = "activate_user"
    /\ resp.status = 400
    /\ Cardinality(DOMAIN users) = 2
    /\ \E i \in DOMAIN users :
          /\ users[i].is_active
          /\ users[i].current_plan = Some("semanal")
          /\ users[i].activated_at = Some(now)

\* C8: deactivate_user(id) on an active account clears is_active,
\* activated_at and current_plan together; on an inactive account it fails
\* with AlreadyInactive (400) and on an unknown id with NotFound (404), and
\* in both failures no account changes.
C8_DeactivateUser ==
    [][\A i \in UserIds(MaxUsers) :
          DeactivateUser(i, TRUE) =>
             IF i \notin DOMAIN users
             THEN /\ resp'.status = 404
                  /\ resp'.detail = "Usuario nao encontrado"
                  /\ users' = users
             ELSE IF ~users[i].is_active
             THEN /\ resp'.status = 400
                  /\ resp'.detail = "Usuario ja esta desativado"
                  /\ users' = users
             ELSE /\ resp'.status = 200
                  /\ users' = [users EXCEPT ![i] = Cleared(@)]]_vars

\* An account that held a plan was deactivated beside an active account.
C8_Witness ==
    /\ resp.op = "deactivate_user"
    /\ resp.status = 200
    /\ \E i, j \in DOMAIN users :
          /\ i # j
          /\ users[i] = Cleared(users[i])
          /\ users[j].is_active
          /\ users[j].current_plan # None

\* C9: activate_user_by_email(email, planCode) on an existing account
\* succeeds whatever planCode is: it stores planCode when it is a key of the
\* plan-duration table and 'mensal' otherwise, with is_active true and
\* activated_at now; for an email without account it fails with NotFound
\* (404) and changes nothing.
C9_ActivateUserByEmail ==
    [][\A e \in Emails, p \in PlanTypes :
          ActivateUserByEmail(e, p, TRUE) =>
             LET hit == {i \in DOMAIN users : users[i].email = e}
             IN IF hit = {}
                THEN /\ resp'.status = 404
                     /\ resp'.detail = "Usuario nao encontrado"
                     /\ users' = users
                ELSE \E i \in hit :
                     /\ resp'.status = 200
                     /\ users' = [users EXCEPT
                                    ![i] = [@ EXCEPT
                                              !.current_plan =
                                                  Some(IF p \in PlanCodes
                                                       THEN p ELSE "mensal"),
                                              !.is_active = TRUE,
                                              !.activated_at = Some(now)]]]_vars

\* An account was activated with the fallback plan beside another account.
C9_Witness ==
    /\ resp.op = "activate_user_by_email"
    /\ resp.status = 200
    /\ Cardinality(DOMAIN users) = 2
    /\ \E i \in DOMAIN users :
          /\ users[i].current_plan = Some("mensal")
          /\ users[i].activated_at = Some(now)
          /\ users[i].is_active

\* C2: a token is accepted only where its type tag matches.  The tokens a
\* login answers with are an access token (of create_access_token) and a
\* refresh token (of create_refresh_token) for the email of the account that
\* logged in.  get_current_user accepts an unexpired access token whose
\* subject has an account and returns that account, and rejects every refresh
\* token; verify_refresh_token (the refresh handler) accepts an unexpired
\* refresh token, answering with a token for the same subject, and rejects
\* every access token.
C2_TokenType ==
    [][/\ \A f \in LoginForms :
            (/\ LoginForAccessToken(f.username, f.password, TRUE, TRUE, TRUE)
             /\ resp'.status = 200) =>
               /\ Val(resp'.tokens).access_token.type = "access"
               /\ Val(resp'.tokens).refresh_token.type = "refresh"
               /\ Val(resp'.tokens).access_token.sub = Lower(f.username)
               /\ Val(resp'.tokens).refresh_token.sub = Lower(f.username)
       /\ \A tok \in HeldTokens :
            GetMe(tok) =>
               /\ tok.type = "refresh" => resp'.status = 401
               /\ resp'.status = 200 =>
                     /\ tok.type = "access"
                     /\ Val(resp'.user) \in DOMAIN users
                     /\ users[Val(resp'.user)].email = tok.sub
               /\ (/\ tok.type = "access"
                   /\ tok.exp > now
                   /\ \E i \in DOMAIN users : users[i].email = tok.sub)
                     => resp'.status = 200
       /\ \A tok \in HeldTokens, keep \in BOOLEAN :
            RefreshAccessToken(tok, keep) =>
               /\ tok.type = "access" => resp'.status = 401
               /\ resp'.status = 200 =>
                     /\ tok.type = "refresh"
                     /\ Val(resp'.tokens).access_token.sub = tok.sub
                     /\ Val(resp'.tokens).access_token.type = "access"
                     /\ Val(resp'.tokens).refresh_token = tok
               /\ (tok.type = "refresh" /\ tok.exp > now)
                     => resp'.status = 200]_vars

\* A refresh token that was still valid was presented to get_current_user
\* and refused for its type.
C2_Witness ==
    /\ resp.op = "me"
    /\ resp.status = 401
    /\ resp.detail = "Token invalido para esta operacao"
    /\ held # None
    /\ Val(held).refresh_token.exp > now

\* The accounts a login form authenticates: the email is the lowercased
\* identifier and the password is the one that was hashed.
Authenticated(f) ==
    {i \in DOMAIN users :
        /\ users[i].email = Lower(f.username)
        /\ users[i].password = [scheme |-> "bcrypt", digest |-> f.password]}

\* The position of a call in the calls a handler made, 0 when absent.
CallIndex(trace, call) ==
    IF \E k \in 1..Len(trace) : trace[k] = call
    THEN CHOOSE k \in 1..Len(trace) : trace[k] = call
    ELSE 0

\* C3: the login handler answers with tokens and sets last_login to now
\* only when authenticate_user succeeded and verify_user_activation_to_login
\* then succeeded, both before any token is issued; when either fails the
\* answer is a rejection without tokens or account details, no token was
\* issued and no last_login changes.
C3_LoginGate ==
    [][\A f \in LoginForms :
          LoginForAccessToken(f.username, f.password, TRUE, TRUE, FALSE) =>
             LET granted ==
                    /\ Authenticated(f) # {}
                    /\ \A i \in Authenticated(f) :
                          users[i].is_superuser \/ ~PastExpiry(users[i], now)
             IN /\ (resp'.tokens # None) <=> granted
                /\ resp'.tokens # None =>
                      /\ resp'.status = 200
                      /\ CallIndex(resp'.trace, "authenticate_user") = 1
                      /\ CallIndex(resp'.trace,
                                   "verify_user_activation_to_login") = 2
                      /\ CallIndex(resp'.trace, "create_access_token") > 2
                      /\ CallIndex(resp'.trace, "create_refresh_token") > 2
                      /\ \A i \in DOMAIN users :
                            users'[i].last_login =
                               IF i \in Authenticated(f) THEN Some(now)
                               ELSE users[i].last_login
                /\ resp'.tokens = None =>
                      /\ resp'.status # 200
                      /\ resp'.user = None
                      /\ CallIndex(resp'.trace, "create_access_token") = 0
                      /\ CallIndex(resp'.trace, "create_refresh_token") = 0
                      /\ CallIndex(resp'.trace, "user_last_login") = 0
                      /\ \A i \in DOMAIN users :
                            users'[i].last_login = users[i].last_login]_vars

\* A login was rejected for an expired plan, and the last_login of an
\* earlier, successful login is still in place.
C3_Witness ==
    /\ resp.op = "login"
    /\ resp.status = 403
    /\ resp.tokens = None
    /\ \E i \in DOMAIN users :
          /\ users[i].last_login # None
          /\ Val(users[i].last_login) < now

\* C4: for an ordinary account with activated_at = T and a plan of d days
\* (diario 1, semanal 7, mensal 30), verify_user_activation_to_login at now
\* returns the account, unchanged and still active, when now <= T + d, and
\* fails with PlanExpired (403) clearing is_active, activated_at and
\* current_plan when now > T + d.
C4_ExpiryAtLogin ==
    [][\A i \in UserIds(MaxTimelineUsers) :
          (/\ VerifyUserActivationToLogin(i, TRUE)
           /\ i \in DOMAIN users
           /\ ~users[i].is_superuser
           /\ users[i].activated_at # None
           /\ users[i].current_plan # None
           /\ Val(users[i].current_plan) \in PlanCodes) =>
             IF now <= Val(users[i].activated_at)
                          + PlanHours(Val(users[i].current_plan))
             THEN /\ resp'.status = 200
                  /\ resp'.user = Some(i)
                  /\ users' = users
                  /\ users'[i].is_active
             ELSE /\ resp'.status = 403
                  /\ resp'.detail = "Plano expirado. Renove sua assinatura."
                  /\ users' = [users EXCEPT ![i] = Cleared(@)]]_vars

\* verify_user_activation_to_login found a plan expired at the last instant
\* and cleared the account.
C4_Witness ==
    /\ resp.op = "verify_user_activation_to_login"
    /\ resp.status = 403
    /\ now = 721
    /\ \E i \in DOMAIN users : users[i] = Cleared(users[i])

\* The step is a call of verify_user_activation_to_login, directly or from
\* the login handler, over a database whose commits may fail.
IsExpiryCheck ==
    \/ \E i \in UserIds(MaxTimelineUsers), ok \in BOOLEAN :
          VerifyUserActivationToLogin(i, ok)
    \/ \E f \in LoginForms, okv \in BOOLEAN, okl \in BOOLEAN :
          LoginForAccessToken(f.username, f.password, okv, okl, FALSE)

\* C5: verify_user_activation_to_login fails with PlanExpired (403) if and
\* only if the same call persisted the deactivation of the account: with 403
\* exactly one active account was cleared, and with any other outcome no
\* account's is_active, activated_at or current_plan changed.
C5_PlanExpiredAtomic ==
    [][IsExpiryCheck =>
          IF resp'.status = 403
          THEN \E i \in DOMAIN users :
                  /\ users[i].is_active
                  /\ users' = [users EXCEPT ![i] = Cleared(@)]
          ELSE \A i \in DOMAIN users :
                  /\ users'[i].is_active = users[i].is_active
                  /\ users'[i].activated_at = users[i].activated_at
                  /\ users'[i].current_plan = users[i].current_plan]_vars

\* The commit of an expiry deactivation failed: the call answered 500 and
\* the expired account is still active.
C5_Witness ==
    /\ resp.op = "verify_user_activation_to_login"
    /\ resp.status = 500
    /\ \E i \in DOMAIN users :
          /\ users[i].is_active
          /\ ~users[i].is_superuser
          /\ PastExpiry(users[i], now)

\* The end-to-end scenario, step by step: create_user adds an inactive
\* account; activate_user(id, 30) on an inactive account makes it active
\* with the monthly plan from now; a login with the right credentials of an
\* active account (of an ordinary one only, if ordinary) holding the monthly
\* plan since T answers with both tokens and sets last_login to now while
\* now <= T + 30 days, and fails with PlanExpired (403), leaving the account
\* inactive, once now > T + 30 days.
EndToEndStep(ordinary) ==
    /\ \A e \in Emails, p \in Passwords, su \in BOOLEAN :
          (/\ CreateUser(e, p, su, TRUE, MaxTimelineUsers)
           /\ resp'.status = 200) =>
             /\ DOMAIN users' # DOMAIN users
             /\ \A i \in DOMAIN users' \ DOMAIN users :
                   users'[i] = Cleared(users'[i])
    /\ \A i \in UserIds(MaxTimelineUsers) :
          (/\ ActivateUser(i, 30, TRUE)
           /\ i \in DOMAIN users
           /\ ~users[i].is_active) =>
             /\ users'[i].is_active
             /\ users'[i].current_plan = Some("mensal")
             /\ users'[i].activated_at = Some(now)
    /\ \A f \in LoginForms :
          LoginForAccessToken(f.username, f.password, TRUE, TRUE, FALSE) =>
             \A i \in Authenticated(f) :
                (/\ users[i].is_active
                 /\ users[i].current_plan = Some("mensal")
                 /\ users[i].activated_at # None
                 /\ ordinary => ~users[i].is_superuser) =>
                   IF now > Val(users[i].activated_at) + 30 * 24
                   THEN /\ resp'.status = 403
                        /\ resp'.detail = "Plano expirado. Renove sua assinatura."
                        /\ resp'.tokens = None
                        /\ ~users'[i].is_active
                   ELSE /\ resp'.status = 200
                        /\ resp'.tokens # None
                        /\ Val(resp'.tokens).access_token.type = "access"
                        /\ Val(resp'.tokens).refresh_token.type = "refresh"
                        /\ users'[i].last_login = Some(now)

\* C6 as stated, for every account: after create_user and
\* activate_user(id, 30) a login succeeds with both tokens and updates
\* last_login, and once more than 30 days have elapsed since activation the
\* next login fails with PlanExpired and leaves the account inactive.
C6_EndToEnd == [][EndToEndStep(FALSE)]_vars

\* C6 as amended: the same for an account that is not a superuser.
C6_EndToEndOrdinary == [][EndToEndStep(TRUE)]_vars

\* An ordinary account that logged in at some instant was rejected for its
\* expired plan more than 30 days later and is inactive.
C6_Witness ==
    /\ resp.op = "login"
    /\ resp.status = 403
    /\ \E i \in DOMAIN users :
          /\ ~users[i].is_superuser
          /\ ~users[i].is_active
          /\ users[i].last_login # None
          /\ now > Val(users[i].last_login) + 30 * 24

C11_ActivateUserOtherDays ==
    [][/\ \A i \in DOMAIN users :
            ~users[i].is_active => users[i].current_plan = None
       /\ \A i \in UserIds(MaxUsers), d \in DayCounts \ {1, 7, 30} :
            (/\ ActivateUser(i, d, TRUE)
             /\ i \in DOMAIN users
             /\ ~users[i].is_active) =>
               /\ resp'.status = 200
               /\ resp'.user = Some(i)
               /\ users'[i].current_plan = None
               /\ users' = [users EXCEPT
                              ![i] = [@ EXCEPT !.is_active = TRUE,
                                               !.activated_at = Some(now)]]]_vars

\* An account that held a plan and lost it was activated again for 15 days:
\* it is active from now without a plan.
C11_Witness ==
    /\ resp.op = "activate_user"
    /\ resp.status = 200
    /\ \E i \in DOMAIN users :
          /\ resp.user = Some(i)
          /\ users[i].is_active
          /\ users[i].activated_at = Some(now)
          /\ users[i].current_plan = None
          /\ users[i].last_login # None

\* C12: a superuser account never fails verify_user_activation_to_login
\* with PlanExpired and is never modified by it, whatever the elapsed time,
\* its activated_at, current_plan and is_active, and whether or not a commit
\* would go through: the direct call returns the account and changes no
\* account, and a login of a superuser is never answered with PlanExpired
\* and leaves its is_active, activated_at and current_plan as they were.
C12_SuperuserExempt ==
    [][/\ \A i \in UserIds(MaxTimelineUsers), ok \in BOOLEAN :
            (/\ VerifyUserActivationToLogin(i, ok)
             /\ i \in DOMAIN users
             /\ users[i].is_superuser) =>
               /\ resp'.status = 200
               /\ resp'.user = Some(i)
               /\ users' = users
       /\ \A f \in LoginForms, okv \in BOOLEAN, okl \in BOOLEAN :
            LoginForAccessToken(f.username, f.password, okv, okl, FALSE) =>
               \A i \in Authenticated(f) :
                  users[i].is_superuser =>
                     /\ resp'.status # 403
                     /\ users'[i].is_active = users[i].is_active
                     /\ users'[i].activated_at = users[i].activated_at
                     /\ users'[i].current_plan = users[i].current_plan]_vars

\* verify_user_activation_to_login returned a superuser that is active past
\* the expiry of its plan.
C12_Witness ==
    /\ resp.op = "verify_user_activation_to_login"
    /\ resp.status = 200
    /\ \E i \in DOMAIN users :
          /\ resp.user = Some(i)
          /\ users[i].is_superuser
          /\ users[i].is_active
          /\ PastExpiry(users[i], now)

\* The three lifecycle fields of a row.
PlanFields(u) == <<u.is_active, u.activated_at, u.current_plan>>

\* The row activated from instant t.
Reactivated(u, t) ==
    /\ u.is_active
    /\ u.activated_at = Some(t)
    /\ u.current_plan # None

C14_EmailUnique ==
    [][/\ \A i, j \in DOMAIN users' :
            i # j => users'[i].email # users'[j].email
       /\ \A r \in 1..MaxInFlight, e \in CreateEmails, p \in Passwords,
             su \in BOOLEAN :
            (/\ CreateUserBegin(r, e, p, su)
             /\ \E i \in DOMAIN users : users[i].email = Lower(e)) =>
               /\ resp'.status = 400
               /\ resp'.detail = "Email ja esta em uso"
               /\ pending' = pending
               /\ users' = users
       /\ \A r \in 1..MaxInFlight, ok \in BOOLEAN :
            (/\ CreateUserCommit(r, ok, MaxUsers)
             /\ \E i \in DOMAIN users : users[i].email = pending[r].email) =>
               /\ resp'.status \notin {200}
               /\ resp'.user = None
               /\ users' = users
       /\ \A i \in DOMAIN users, u \in UserUpdates, ok \in BOOLEAN :
            (/\ UpdateUser(i, u, ok)
             /\ u.email # None
             /\ \E j \in DOMAIN users :
                   j # i /\ users[j].email = Lower(Val(u.email))) =>
               /\ resp'.status \notin {200}
               /\ users' = users]_vars

\* A create_user that found its email free is still in flight while another
\* request has stored an account with that email, beside a second account.
C14_Witness ==
    /\ Cardinality(DOMAIN users) = 2
    /\ \E r \in DOMAIN pending, i \in DOMAIN users :
          users[i].email = pending[r].email

C16_TokenErrors ==
    [][/\ \A tok \in BearerTokens :
            GetCurrentUser(tok) =>
               /\ users' = users
               /\ (tok.key = SECRET_KEY /\ tok.exp < now) =>
                     /\ resp'.status = 401
                     /\ resp'.detail = "Token expirado"
               /\ (\/ tok.key # SECRET_KEY
                   \/ /\ tok.exp > now
                      /\ \/ tok.sub = ""
                         \/ tok.type # "access"
                         \/ \A i \in DOMAIN users : users[i].email # tok.sub) =>
                     /\ resp'.status = 401
                     /\ resp'.user = None
                     /\ resp'.detail \in {"Nao autenticado/Logado!",
                                          "Token invalido para esta operacao"}
       /\ \A tok \in BearerTokens :
            VerifyRefreshToken(tok) =>
               /\ (tok.key = SECRET_KEY /\ tok.exp < now) =>
                     /\ resp'.status = 401
                     /\ resp'.detail = "Refresh token expirado"
               /\ tok.key # SECRET_KEY =>
                     /\ resp'.status = 401
                     /\ resp'.detail = "Erro ao verificar o refresh token"]_vars

\* Between the two expiries, with both accounts stored, a token was
\* refused by get_current_user as expired.
C16_Witness ==
    /\ resp.op = "me"
    /\ resp.status = 401
    /\ resp.detail = "Token expirado"
    /\ now = 12
    /\ Cardinality(DOMAIN users) = 2

\* C17: token lifetimes are per call site.  The access token of a login
\* expires 12 hours after the login and its refresh token 30 days after;
\* the access token of the refresh handler expires 6 hours after the
\* refresh, as does one of create_access_token called without a lifetime
\* (create_refresh_token without a lifetime: 30 days).  A token the server
\* issued is accepted where its type fits before its expiry and rejected as
\* expired after it.
C17_TokenLifetimes ==
    [][/\ create_access_token("ana@x.io", None, now).exp = now + 6
       /\ create_refresh_token("ana@x.io", None, now).exp = now + 30 * 24
       /\ \A f \in LoginForms :
            (/\ LoginForAccessToken(f.username, f.password, TRUE, TRUE, TRUE)
             /\ resp'.status = 200) =>
               /\ Val(resp'.tokens).access_token.exp = now + 12
               /\ Val(resp'.tokens).refresh_token.exp = now + 30 * 24
       /\ \A tok \in HeldTokens, keep \in BOOLEAN :
            RefreshAccessToken(tok, keep) =>
               /\ resp'.status = 200 =>
                     Val(resp'.tokens).access_token.exp = now + 6
               /\ tok.type = "refresh" =>
                     /\ tok.exp > now => resp'.status = 200
                     /\ tok.exp < now =>
                           /\ resp'.status = 401
                           /\ resp'.detail = "Refresh token expirado"
       /\ \A tok \in HeldTokens :
            (GetMe(tok) /\ tok.type = "access") =>
               /\ tok.exp > now => resp'.status = 200
               /\ tok.exp < now =>
                     /\ resp'.status = 401
                     /\ resp'.detail = "Token expirado"]_vars

\* A client kept the access token of a refresh: at the instant of that
\* refresh the token has 6 hours left while the refresh token is older.
C17_Witness ==
    /\ resp.op = "refresh"
    /\ resp.status = 200
    /\ held = resp.tokens
    /\ Val(held).access_token.exp = now + 6
    /\ Val(held).refresh_token.exp < now + 30 * 24

\* The shapes the specification gives the identifiers: an email, a bare
\* word, or neither.
EmailShaped == {"ana@x.io", "bob@x.io", "Ana@X.io", "ana@x.io<LF>"}
BareWords == {"ana", "ana_2"}

\* C18: authenticate_user classifies every identifier into one outcome.
\* An identifier that has neither the shape of an email nor that of a bare
\* word fails with InvalidFormat; a bare word fails with
\* UnsupportedIdentifier, whatever accounts exist; an identifier with the
\* shape of an email is looked up by its lowercased form and fails with
\* InvalidCredentials when no account has that email or the password does
\* not verify, and otherwise returns that account.  No account changes.
C18_AuthenticateUser ==
    [][\A id \in Identifiers, p \in Passwords \cup {WrongPassword} :
          AuthenticateUser(id, p) =>
             /\ users' = users
             /\ IF id \in BareWords
                THEN /\ resp'.status = 400
                     /\ resp'.detail =
                           "Autenticacao por nome de usuario nao suportada"
                     /\ resp'.user = None
                ELSE IF id \notin EmailShaped
                THEN /\ resp'.status = 400
                     /\ resp'.detail = "Formato de e-mail invalido"
                     /\ resp'.user = None
                ELSE LET hit == {i \in DOMAIN users :
                                    /\ users[i].email = Lower(id)
                                    /\ users[i].password.digest = p}
                     IN IF hit = {}
                        THEN /\ resp'.status = 400
                             /\ resp'.detail = "E-mail ou senha incorretos"
                             /\ resp'.user = None
                        ELSE /\ resp'.status = 200
                             /\ Val(resp'.user) \in hit]_vars

\* The second of two accounts was returned by authenticate_user.
C18_Witness ==
    /\ resp.op = "authenticate_user"
    /\ resp.status = 200
    /\ resp.user = Some(2)
    /\ Cardinality(DOMAIN users) = 2

\* A configured secret is present: set, and not empty.
Present(v) == v # None /\ Val(v) # ""

\* C19: get_basic_credentials returns the supplied username if and only if
\* both configured secrets are present and the supplied username and
\* password equal them; it fails with 401 when both are present and either
\* value differs, and with 500 whenever either secret is absent, whatever
\* the credentials.  POST /user stores nothing for a request it refuses.
C19_BasicCredentials ==
    [][/\ \A u \in BasicUsernames, p \in BasicPasswords :
            GetBasicCredentials(u, p) =>
               IF ~Present(environ.API_USER) \/ ~Present(environ.API_PASS)
               THEN /\ resp'.status = 500
                    /\ resp'.detail = "Configuracao de autenticacao incompleta"
               ELSE IF u = Val(environ.API_USER) /\ p = Val(environ.API_PASS)
               THEN /\ resp'.status = 200
                    /\ resp'.detail = u
               ELSE /\ resp'.status = 401
                    /\ resp'.detail = "Usuario ou senha incorretos"
       /\ users' # users =>
            /\ Present(environ.API_USER)
            /\ Present(environ.API_PASS)]_vars

\* On a server with API_USER set and API_PASS not set a request was
\* answered with the configuration error.
C19_Witness ==
    /\ resp.op = "get_basic_credentials"
    /\ resp.status = 500
    /\ environ.API_USER = Some("admin")
    /\ environ.API_PASS = None

\* The step answered with an internal failure and changed no account.
RolledBack ==
    /\ resp'.status = 500
    /\ resp'.tokens = None
    /\ users' = users

\* C20: when the commit fails in activate_user, activate_user_by_email
\* (called directly or by the payment webhook), deactivate_user or the
\* expiry deactivation of verify_user_activation_to_login (called directly
\* or by login), the change is rolled back: every stored account is as
\* before the call and the caller receives 500, not a success and not
\* PlanExpired or AlreadyActive.
C20_RollbackOnFailure ==
    [][/\ \A i \in DOMAIN users, d \in DayCounts :
            (ActivateUser(i, d, FALSE) /\ ~users[i].is_active) => RolledBack
       /\ \A i \in DOMAIN users :
            (DeactivateUser(i, FALSE) /\ users[i].is_active) => RolledBack
       /\ \A e \in Emails, p \in PlanTypes :
            (/\ ActivateUserByEmail(e, p, FALSE)
             /\ \E i \in DOMAIN users : users[i].email = Lower(e))
               => RolledBack
       /\ \A b \in WebhookBodies :
            (/\ WebhookKirvano(b.status, b.email, b.type,
                               b.charge_frequency, FALSE)
             /\ b.status = "APPROVED"
             /\ b.email # None
             /\ \E i \in DOMAIN users : users[i].email = Lower(Val(b.email)))
               => RolledBack
       /\ \A i \in DOMAIN users :
            (/\ VerifyUserActivationToLogin(i, FALSE)
             /\ ~users[i].is_superuser
             /\ PastExpiry(users[i], now)) => RolledBack
       /\ \A f \in LoginForms, okl \in BOOLEAN :
            (/\ LoginForAccessToken(f.username, f.password, FALSE, okl, FALSE)
             /\ \E i \in Authenticated(f) :
                   ~users[i].is_superuser /\ PastExpiry(users[i], now))
               => RolledBack]_vars

\* The commit of deactivate_user failed: the call answered 500 and the
\* account is still active with its plan and its activation instant.
C20_Witness ==
    /\ resp.op = "deactivate_user"
    /\ resp.status = 500
    /\ \E i \in DOMAIN users :
          /\ users[i].is_active
          /\ users[i].activated_at # None
          /\ users[i].current_plan # None

\* C21: each lifecycle transition is an atomic read-check-write.  When two
\* activate_user calls (or two deactivate_user calls) for one account run
\* concurrently, both having read the account before either committed, and
\* one of them has committed and answered with success, the other does not
\* succeed: it fails with AlreadyActive (AlreadyInactive) and changes no
\* account.
C21_AtomicTransition ==
    [][\A r \in 1..MaxInFlight :
          (/\ r \in DOMAIN pending
           /\ pending[r].op \in {"activate_user", "deactivate_user"}
           /\ resp.op = pending[r].op
           /\ resp.status = 200
           /\ resp.user = Some(pending[r].user_id)
           /\ SessionCommit(r, TRUE)) =>
             /\ resp'.status = 400
             /\ users' = users]_vars

\* C22: no account is ever left half-updated: in every reachable stored
\* state, under any sequence and any interleaving of activate_user,
\* activate_user_by_email, deactivate_user and
\* verify_user_activation_to_login, an account with is_active = false has
\* activated_at = null and current_plan = null.
C22_NeverHalfUpdated ==
    \A i \in DOMAIN users :
        ~users[i].is_active =>
            /\ users[i].activated_at = None
            /\ users[i].current_plan = None

\* C23: the activate and deactivate endpoints require superuser
\* privileges.  A request whose access token resolves to an account that is
\* no superuser is answered 403 ("Acesso restrito a administradores"),
\* neither activate_user nor deactivate_user is called, and no account
\* changes.  A request of a superuser reaches the crud function.
C23_AdminOnly ==
    [][\A tok \in AdminTokens, i \in UserIds(MaxUsers), d \in AdminDays :
          LET c == get_current_user(users, tok, now)
          IN (/\ c.status = 200
              /\ \E ok \in BOOLEAN :
                    \/ ActivateUserById(tok, i, d, ok)
                    \/ DeactivateUserById(tok, i, ok)) =>
                IF users[Val(c.user)].is_superuser
                THEN resp'.trace \in {<<"get_current_user", "activate_user">>,
                                      <<"get_current_user", "deactivate_user">>}
                ELSE /\ resp'.status = 403
                     /\ resp'.detail = "Acesso restrito a administradores"
                     /\ resp'.trace = <<"get_current_user">>
                     /\ users' = users]_vars

\* An ordinary account that a superuser had activated asked to deactivate
\* an active account, was refused, and the account is still active.
C23_Witness ==
    /\ resp.op = "deactivate_user_by_id"
    /\ resp.status = 403
    /\ resp.trace = <<"get_current_user">>
    /\ \E j \in DOMAIN users :
          /\ ~users[j].is_superuser
          /\ users[j].is_active
          /\ users[j].current_plan = Some("diario")

\* C24: the activation state gates login.  A login attempt that
\* authenticates an account that is no superuser and is inactive (never
\* activated, deactivated, or cleared by an earlier PlanExpired) returns no
\* tokens.
C24_InactiveNeverLogsIn ==
    [][\A f \in LoginForms :
          (/\ LoginForAccessToken(f.username, f.password, TRUE, TRUE, FALSE)
           /\ \E i \in Authenticated(f) :
                 ~users[i].is_superuser /\ ~users[i].is_active) =>
             /\ resp'.tokens = None
             /\ resp'.status # 200]_vars

C26_ReactivationOverwrites ==
    [][\A e \in Emails, p \in PlanTypes, i \in DOMAIN users :
          (/\ users[i].email = Lower(e)
           /\ users[i].is_active
           /\ ActivateUserByEmail(e, p, TRUE)) =>
             LET code == IF p \in PlanCodes THEN p ELSE "mensal"
             IN /\ resp'.status = 200
                /\ users'[i] = [users[i] EXCEPT !.activated_at = Some(now),
                                                !.current_plan = Some(code)]
                /\ \A j \in DOMAIN users \ {i} : users'[j] = users[j]
                /\ \A t \in Instants :
                      (verify_user_activation_to_login(users', i, t, TRUE).status
                          = 403)
                      <=> (~users[i].is_superuser /\ t > now + PlanHours(code))]_vars

\* An account on a weekly plan activated at instant 24 while the clock
\* reads 24: with the one-day or the monthly plan it held from instant 0
\* the row would read otherwise.
C26_Witness ==
    /\ resp.op = "activate_user_by_email"
    /\ resp.status = 200
    /\ now = 24
    /\ \E i \in DOMAIN users :
          /\ resp.user = Some(i)
          /\ ~users[i].is_superuser
          /\ users[i].last_login = Some(0)
          /\ users[i].activated_at = Some(24)
          /\ users[i].current_plan = Some("semanal")

Subjects(us, token) == {i \in DOMAIN us : us[i].email = token.sub}

\* C28: get_current_user reads only the token and the existence of an
\* account with the subject email.  An unexpired access token resolves to
\* the account with its subject email whether or not that account is active
\* (so also after deactivate_user or a PlanExpired deactivation); it fails
\* with Unauthenticated (401) when no account has that email, as once the
\* account is deleted or its email is changed; and get_current_user modifies
\* no account.
C28_TokenOutlivesDeactivation ==
    [][\A tok \in HeldTokens :
          GetMe(tok) =>
             /\ users' = users
             /\ (tok.type = "access" /\ tok.exp > now) =>
                   /\ Subjects(users, tok) # {} =>
                         /\ resp'.status = 200
                         /\ resp'.user \in {Some(i) : i \in Subjects(users, tok)}
                   /\ Subjects(users, tok) = {} =>
                         /\ resp'.status = 401
                         /\ resp'.detail = "Nao autenticado/Logado!"
                   /\ \A i \in Subjects(users, tok) :
                         LET o == get_current_user(
                                     [users EXCEPT ![i].email = "carl@x.io"],
                                     tok, now)
                         IN /\ o.status = 401
                            /\ o.detail = "Nao autenticado/Logado!"]_vars

\* At instant 25 the access token of a refresh resolved to an ordinary
\* account that logged in at instant 0 and is inactive.
C28_Witness ==
    /\ now = 25
    /\ resp.op = "me"
    /\ resp.status = 200
    /\ \E i \in DOMAIN users :
          /\ resp.user = Some(i)
          /\ ~users[i].is_superuser
          /\ ~users[i].is_active
          /\ users[i].last_login = Some(0)

\* C29: the refresh handler depends only on the refresh token.  For an
\* unexpired refresh token signed by the server it answers with a new access
\* token for the subject of the token, valid six hours, and the same refresh
\* token, whatever accounts exist and whatever their state (deactivated,
\* expired, deleted), and it modifies no account.
C29_RefreshIgnoresAccounts ==
    [][\A tok \in HeldTokens, keep \in BOOLEAN :
          RefreshAccessToken(tok, keep) =>
             /\ users' = users
             /\ (tok.type = "refresh" /\ tok.exp > now) =>
                   /\ resp'.status = 200
                   /\ resp'.tokens =
                         Some([access_token |->
                                  jwt_encode(tok.sub, "access",
                                             now + Hours(6), SECRET_KEY),
                               refresh_token |-> tok])]_vars

\* A refresh at instant 25 succeeded for a subject whose account has been
\* deleted.
C29_Witness ==
    /\ now = 25
    /\ resp.op = "refresh"
    /\ resp.status = 200
    /\ nextId > 1
    /\ Subjects(users, Val(resp.tokens).refresh_token) = {}

\* The email-shaped identifier names an account whose password is not p.
WrongPasswordFor(id, p) ==
    /\ get_user_by_email(users, id) # None
    /\ ~verify_password(p, Val(get_user_by_email(users, id)).password)

\* C30: authenticate_user does not reveal whether an email is registered.
\* For identifiers with the shape of an email, the error of a call for an
\* email no account has is the error (same status, same detail) that a call
\* for an existing account with a wrong password gets in the same table, and
\* conversely; neither call returns an account and neither modifies one.
C30_NoEnumeration ==
    [][\A id \in EmailShaped, p \in Passwords \cup {WrongPassword} :
          (/\ AuthenticateUser(id, p)
           /\ \/ get_user_by_email(users, id) = None
              \/ WrongPasswordFor(id, p)) =>
             /\ users' = users
             /\ resp'.status # 200
             /\ resp'.user = None
             /\ \A id2 \in EmailShaped, p2 \in Passwords \cup {WrongPassword} :
                   (\/ get_user_by_email(users, id2) = None
                    \/ WrongPasswordFor(id2, p2)) =>
                      LET b == authenticate_user(users, id2, p2)
                      IN /\ b.status = resp'.status
                         /\ b.detail = resp'.detail
                         /\ b.users = users]_vars

\* authenticate_user refused a request while one email is registered and
\* another is not.
C30_Witness ==
    /\ resp.op = "authenticate_user"
    /\ resp.status = 400
    /\ resp.detail = "E-mail ou senha incorretos"
    /\ get_user_by_email(users, "ana@x.io") # None
    /\ get_user_by_email(users, "bob@x.io") = None

====
